# A model of tlog-search

TLA+ modules for the tools of this repository, TLC configurations that check
them on small instances, and TLAPS proofs of what holds for instances of every
size. Paths are relative to the repository; `reduce.py:120` is a line of it.

## The system

The tools read, check and feed a transparency log. Most are single programs run
to their end; what makes them hard is not threads but the files, servers and
people between two steps of a program, or between two programs.

| Component | State | Operations | Interacts with |
|---|---|---|---|
| `reduce.reduce_leaves` and the rules it calls | the table, the malformed indices, the counts by reason, the rotations | one turn of a loop per leaf | the leaves `tlogsearch.load_leaves` returns |
| `subtree.py`, hashes of `tlogsearch.py`, `reduce.inclusion_proof`, `verify_receipt.check_inclusion` | none; `verify_subtree_proof` has loop variables | tree hash, proofs, their verification | called by all readers |
| `tlogsearch.main`, `reduce.main` | what has been read so far | read five files, refuse, answer or raise | the export directory, which others refresh |
| `reduce.py --receipt`, `verify_receipt.py` | a receipt, a JSON file | issue, check four links | each other, through whoever passes receipts on |
| `hf_watch.py` over `hf_attest.attest` | the state file | observe, append a digest and details, save | the Hub, the log's `/add-leaf` |
| `fetch_headers.py` | progress file, `headers.bin`, `headers.json` | walk down in batches, flush, write, describe | a block explorer, a later run of itself |
| `extlog_watch.py` | a state file | fetch every artifact and log head, append one leaf, save | artifact servers, git hosts, the log |
| `ots.py`, `verify_anchors.py` | none | replay proofs, check headers, classify anchors | files of `fetch_headers.py` |
| `mirror_client.py` | none between runs; the mirror has some | build packages, check them, send them | the export directory, a mirror |
| `git_attest.py`, `attest_repos.py`, `hf_attest.main` | none | describe and submit | git, git hosts, the Hub, the log |
| `ed25519.py` | none | make and verify a signature | called by all readers |
| `jcs.py` | none | canonical text of an object | called by `reduce.py` and the watchers |
| `corpus/divergence.py` | none | compare two reductions | `corpus/cases.json` |

**Hard behaviours.** An export refreshed between two reads. A fault or a kill
anywhere in a watcher's run, a download or an upload, and the next run that
starts from what it left. The Hub, or a publisher, moving between two requests
of one run; a chain reorganised between two batches; a request served after the
client has given it up. Trees that are not perfect, uploads that begin and end
within a block. Proofs that fork and proofs that are cut. Receipts put together
from parts of several. And accounting that must stay exact over any list of
leaves, because an answer about absence rests on it. `PROJECT.json` lists these
at their lines.

**What makes each part correct.** The reduction: last write wins per (issuer,
subject), nobody displaces another issuer, every leaf accounted for. The trees:
a proof is accepted exactly when it is the right one. The signatures: the
verdict is the equation of the group. The readers: what is answered is about the
tree the log's signature commits to, and a miss is left to stand only when it is
one. Receipts: one that checks out is true. The watchers: the state never gets
ahead of the log. The download: nothing fetched is lost, nothing is fetched
twice without cause, and it finishes. The anchors: what is counted leads into
these headers. The mirror client: reruns give the mirror the whole tree.

## Modules

| Module | Models | State and actions |
|---|---|---|
| `LeafRules` | `reduce.parse`, `typeof`, `issuer_of`, `subject_of`, rotation claims; the table described row by row | operators |
| `Reduction` | `reduce.reduce_leaves` | the function's locals; an action per way through the loop's body |
| `Merkle` | `subtree.py`, `reduce.inclusion_proof`, `verify_receipt.check_inclusion` | operators |
| `SubtreeVerifier` | `subtree.verify_subtree_proof` | its loop variables; an action per branch of its loops |
| `Checkpoint` | `parse_checkpoint`, `verify_checkpoint`, and the counting of `verify_receipt.main` | operators |
| `VerifiedExport` | `tlogsearch.main` and `reduce.main` over a directory | an action per read, refusal and answer, and the directory's own changes |
| `Receipt` | `reduce.py --receipt`, then `verify_receipt.main` | issue, mix, check |
| `Observations` | what a watcher promises: record what was seen and what moved, only then adopt it | the record and the baseline; two actions |
| `HFWatch` | `hf_watch.main`, `submit`, `hf_attest.attest` | an action per request, append and save, and their failures; implements `Observations` |
| `ExtlogWatch` | `extlog_watch.py` | an action per fetch, append and save, and their failures; implements `Observations` |
| `FetchHeaders` | `fetch_headers.main`, `get`, `headers_from` | an action per answer, failure and file operation |
| `Anchors` | `ots._walk`, `verify_anchors.main` with `Headers` and `check_chain` | the header files and the proofs, fixed; an action per token read and per way a file is judged |
| `MirrorClient` | `mirror_client.main`, `build_packages` | an action per read, check and request, the directory's changes, a mirror, and what happens to requests |
| `Ed25519` | `ed25519.py` | keys, signatures and verdicts; the arithmetic as operators |
| `ReplayProofs`, `MerkleProofs`, `VerifiedExportProofs`, `VerifierProofs`, `HFWatchProofs`, `ExtlogWatchProofs`, `FetchHeadersProofs`, `MirrorClientProofs` | theorems | |
| `MC*` | TLC instances | |

`Reduction`, `VerifiedExport` and `Receipt` share `LeafRules`; `VerifiedExport`
and `Receipt` compose it with `Merkle` and `Checkpoint`; `MirrorClient` takes
the subtrees from `Merkle`. The loop of `reduce_leaves` is one step in
`VerifiedExport` and `Receipt` (`RowOf`, `KeysOf`, `SetAside` describe its
result row by row); `Reduction!LastWriteWins` and `AccountingExact` are what
says the loop computes that. `Anchors` starts from the files that
`FetchHeaders` and its faults may leave: whole, of two branches, beside another
run's description or none, cut short.

**Abstractions.**

* A hash is the term that was hashed, so hashes collide only if their inputs are
  equal. A signature line carries whether it verifies; when it does is `Ed25519`.
* A leaf's bytes are how far the parser gets with them and the fields the rules
  read; a field that holds no string is the one value `NotStr`, since the code
  never tells these apart. Whether a rotation is signed is a field that no rule
  reads. `NonObjects` are the leaves that `tlogsearch.py --field` reads as JSON
  that is no object; its parser is more lenient than `reduce.parse`, so some of
  them may be malformed for the reduction for other reasons. A model card is the
  commit it belongs to.
* In `HFWatch` a line of `models.txt` leads to a repository, which has a name of
  its own at the Hub (`NamesOf`). The state file and the set of a digest know a
  model by the line, the `changed` list of a digest by the Hub's name, which may
  be missing; two lines may lead to one repository. The list is kept in the order
  of observation, not alphabetically.
* In `FetchHeaders` a header is the branch it was mined on and the branch its
  prev-block field names; in `Anchors`, its height and branch, its parent's,
  its root and whether it meets its target.
* An OpenTimestamps proof is the sequence of its tokens (operation, fork,
  attestation), with a mark where one is cut short or unknown, and beside it the
  paths its author put there, which are those of the tokens (`IsProof`); a message is the digest with the operations
  applied to it.
* In `MirrorClient` a list of leaves is its length and whether it is the log's,
  and a proof is the subtree it is for, since it verifies for that one and no
  other (`AnyCallIsJudgedExactly`). The mirror is external: it is told two
  ends, and takes what it would itself cut there.
* In `Ed25519` the prime, the order and the length of encodings are small, and
  SHA-512 is an operator; the formulas are the code's.
* The artifacts and logs of all subjects of `extlog_watch.py` are one list, in
  the order they are fetched.
* What is printed is left out, except whether the warning about absence is.

## Runs

Runs that pass:

| Run | Instance | What it shows |
|---|---|---|
| `reduction` | lists of up to 4 leaves, 11 shapes, 2 issuers, 2 subjects | the table and the accounting are exact after every leaf; the identity graph has every signed rotation and nothing but rotations |
| `subtree` | every range of trees of up to 9 leaves; right proofs and hashes, those one mistake away, and no proof at all | the verdict is exact, `check_inclusion` gives the verdict `verify_subtree_proof` gives for the same leaf, `sr` and `fr` are nodes of the tree at every turn, the positions stay ordered, every call returns |
| `export` | logs of up to 3 leaves of 4 kinds, 2 signature blocks, 2 log keys, 3 trust roots, 2 key files, 2 changes of the directory anywhere | answers are about the log's own tree; absences are honest, and the log's key and a quorum are behind them; sound directories are not refused |
| `receipt` | logs of up to 3 leaves, any set of fields taken from another receipt of this log or of another, or another checkpoint | a receipt that checks out is true; a head receipt checks out |
| `hf_watch` | 2 models, of which one may be renamed to what the other is called, 2 commits, 3 runs, 3 moves of the Hub and faults together | the watcher implements `Observations`, the log and the state file agree, and each run's leaves fit together |
| `extlog` | 2 artifacts, one of them served without a length, 1 log, 2 versions, 2 moves, 2 faults, fairness | the watcher implements `Observations`, nothing observed whole is older than its run, and the state catches up when all comes to rest |
| `fetch` | 3 overlapping ranges sharing files, batch of 3, 2 faults, 1 reorganisation, 4 runs, fairness | no header saved for the range at hand is lost from both files, what is received twice is bounded by the faults, and in the end a range has its two files |
| `anchors` | every proof two levels deep over 2 operations, whole and cut or damaged at every token; pairs of 11 proofs over 9 header files and 4 `--expect-hash` | the replay follows the paths, the count is of proofs that lead into these headers, an exit status of 0 is honest |
| `mirror` | blocks of 4, 2 packages a request, `--from` 0, 3, 5, 12, logs of up to 11 leaves, 2 changes of the directory, 2 faults, fairness | the client's own proofs verify, only a gap is refused, a run that ends well leaves the whole tree, reruns get there |
| `ed25519` | a curve of 40 points; all 64 encodings of a commitment and of a key, 6 scalars, 3 messages, every key and commitment a holder may have | the verdict is the group's equation, what is signed is accepted, one response fits |

Runs that end in a violation, each of a statement the repository makes (the
quotations are in `PROJECT.json`):

| Run | Statement | What the code does |
|---|---|---|
| `quorum` | a quorum of independent cosignatures, of keys the trust root names | counts lines, a repeated one twice, and compares names only: two copies of one line under a key the trust root does not name make a quorum of two (`tlogsearch.py:125`, `:134`) |
| `receipt_as_of` | point-in-time receipts, checked from the receipt alone | link 2 always fails below the head: `reduce.py:317` |

**Noticed, without a run.** The models have all of these; the properties are
stated so as to leave room for them.

* `verify_receipt.py:42-47`: the index is never held to the size, nor the
  position to its end, so a leaf passes link 1 under indices that are not its
  own, against `verify_receipt.py:68-69`.
* `verify_receipt.py:114` compares four of the row's eight fields, and nothing
  looks at the checkpoint's log signature (`verify_receipt.py:90`), against
  `verify_receipt.py:10-11`.
* A quorum of 0 is met in `reduce.py` and never in `verify_receipt.py:101`.
* `reduce.py:146-152` looks neither at the signature of a rotation nor at who
  issued it: any leaf of the rotation type with two DIDs enters the identity
  graph, against `spec/reduction-v1.md:172` ("must be signed by the outgoing
  key"). `IdentityGraphExact` asks for the signed ones and allows the others.
* `reduce.py:279` computes the digest of the specification and prints it; nothing
  looks for it in the log, against `spec/reduction-v1.md:224` and `:274` and
  `README.md:199-205`. `SoundExportIsAnswered` does not ask a reduction of a
  directory whose log holds no manifest leaf; the code gives it one.
* `reduce.py:365-371`: after a miss with leaves set aside a warning is printed and
  0 returned, where `spec/reduction-v1.md:226` asks for 2. `AbsenceIsHonest` is
  about the warning. `reduce.py:266`: `--as-of 0` raises.
* `tlogsearch.py:161-167`: `--field` raises `AttributeError` at the first leaf that
  is JSON and no object, so that no such query can be asked of a log that has one
  (`RaiseAtNonObject`).
* `hf_watch.py:108` names what has changed by the Hub's `id` (`hf_attest.py:65`),
  while the state and the set's keys are the lines of `models.txt` (`:87`, `:99`):
  after a rename `changed` has names the set does not have. If two models have
  changed and one has no `id`, `sorted` raises, and the run ends with nothing
  logged and nothing saved (`SortRaises`).
* `hf_watch.py:82`: a model that could not be fetched leaves the state, so "a
  changed model always has its own leaf" (`hf_watch.py:15-16`) does not hold
  across that run. `extlog_watch.py:91` does the same with a log's head.
* A run of `hf_watch.py` without `--submit` saves its state
  (`hf_watch.py:126`), so what it saw is never logged.
* `fetch_headers.py:133`: a header's prev-block is never compared with its
  neighbour, against "linked by construction" (`README.md:143-145`);
  `verify_anchors.py` finds it, which is part of `ExitIsHonest`.
* The progress file is removed before `headers.json` is written
  (`fetch_headers.py:151`), and `headers.bin` is not read back, so after a kill
  between the two everything is fetched again; and a run with a higher `--from`
  that finishes removes the headers an earlier run had saved below it. Both are
  against "resumes from what it already has" (`fetch_headers.py:23-24`);
  `FetchedIsNeverLost` leaves room for both and for nothing else but a run for
  another `--to`.
* `extlog_watch.py:63`: a body that is cut short and has no declared length is
  hashed as the artifact, "exactly the false alarm this tool must not raise"
  (`extlog_watch.py:54-57`). `ObservedInItsRun` is about all other bodies.
* `verify_anchors.py:59` takes `headers.json` for the description of
  `headers.bin`; with another run's, proofs fail or are not counted, none is
  counted in error. `:111`: an `--expect-hash` height outside the headers raises
  `TypeError`, and one that does not match leaves the exit status at 0. `:127`:
  a proof without its file ends the run with an exception.
* `ed25519.py:121`: an encoding with y at or above q, or of x = 0 with the sign
  bit, is read as another encoding of a point is; RFC 8032, which line 1 names,
  refuses both.
* `mirror_client.py` with `--from` at or past the size sends the checkpoint and
  no entry, and returns 0.

**Bounds.** Four leaves let a key be written, displaced in between by another
key, superseded twice, and counted beside malformed and skipped leaves. Nine
leaves give perfect trees, trees with one leaf over, and a subtree at every
depth three levels down. Two changes of a directory during a run are enough to
replace both files it reads the tree from, or one and a key file. The four kinds
of leaves are two issuers' claims of one subject, a manifest, and one that is no
object. Three runs of
`hf_watch.py` give a baseline, a run that goes wrong and one that starts from
what that left; three events, moves of the Hub (`MaxMoves`) and faults
(`MaxFaults`) together (`MaxEvents`), are a rename onto the other model's
repository, a push, which both lines then see, and metadata without a name, or a
push and two appends that go wrong; `ExtlogWatch` needs no bound on runs, because its log is a set
of leaves. `MaxRuns` of `fetch` exceeds what two faults can use up, so the bound
never stops the operator; ranges of nine, five and two heights in batches of
three give whole and partial last batches, two of them share a `--to` and cut
its batches in different places, and one begins at height 0; the two batches
`WorkIsNotRepeated` grants per fault are reached there, and one is not enough. In `mirror`, sizes up to 11 over blocks of 4 give uploads
within a block, over one boundary and over two, three packages in two requests,
and `--from` values at a block, within one, at the next and past the end; two
faults are a broken request and a late one, or one and a kill. Two levels of
forks let a branch within a branch spoil the message of the one around it. On
the curve, the six scalars are below the order, at it and above, and y of 29 to
31 do not fit the field. In `hf_watch` the commits are a symmetry set, since
only their equality matters; the models are not, because they are observed in
order. Deadlock is not checked anywhere: every program ends, and the bounded
environments run out.

**Fairness.** `SubtreeVerifier` assumes that a called function goes on.
`FetchHeaders!FairSpec` assumes weak fairness of the program's own steps and of
the operator, who runs the command again until its files are there, as
`fetch_headers.py:145` asks. `ExtlogWatch!FairSpec` assumes the same of a
scheduled watcher. `MirrorClient!FairSpec` assumes weak fairness of a run's
steps, and strong fairness of the run without `--from`, because runs with other
values may be started in between for ever. Faults, changes and late requests are
not fair, only bounded, and may all come at the worst moment. No safety property
rests on fairness.

`TypeOK` is checked in `reduction`, `hf_watch`, `extlog` and `mirror`, where it
says more than the sets the variables are in.

## Proofs

Every theorem is for all values of the constants, and for any number of steps.
TLC has checked each invariant that the proofs rest on, on a small instance.

* `ReplayProofs`, for leaves of every kind and lists of every length, from
  `NamesAssumption` and `ExportsAssumption`: `TypeCorrect`, `LastWriteWinsHolds`,
  `ContestedSubjectsKept`, `AccountingHolds`, `IdentityGraphHolds`. They are
  inductive together with `TypeOK`: each is stated over the leaves met so far,
  and a step adds one index to that set, which is the lemma each case rests on.
  That a row's count is one less than its writes needs the finiteness and
  cardinality facts of the library; that the identity graph misses no rotation
  needs that a rotation reaches its branch whatever its key fields are
  (`RotationsReachTheirBranch`).

  The same module has the theorems about `Anchors` (both modules are about a
  replay, and their theorems are for proofs and headers of every size):
  `ReplayFollowsThePathsHolds`, `CountIsOfAnchoredFilesHolds`,
  `ExitIsHonestHolds`. `AnchorsAssumption` says what it means that the paths
  beside a proof are its author's, without a walk: a fork begins a branch and an
  attestation ends one (`Open`), an operation leads to what follows it until its
  branch has ended (`Leading`), and the message of a path is the digest with these
  operations in their order (`Follow`); TLC evaluates it on the trees of the
  instance, which are built the other way, from branches. `WalkInv` then says
  that after any number of tokens there is a call for every branch that has not
  ended, that the c-th is at the message of the operations of the first c
  branches (`InCall`), and that what has been recorded is the beginning of the
  paths. A fork leaves all calls but the new one alone (`CallsFork`), an
  attestation all but the last (`CallsAttest`), and numbers are in order in one
  way (`OneOrder`), so that two messages of the same operations are equal
  (`FollowOne`). `CountInv` and `HonestInv` carry that over the files judged so
  far. Attempting the proof corrected `ExitIsHonest`: it said that no token of a
  proof is cut short, but what lies behind the end of a proof is not read; it now
  says that no token before the end is cut short or unknown, and the instance has
  proofs with either behind the end.
* `MerkleProofs`, for trees of every size: `RootBindsLeaves` (a root commits to
  every leaf of its range), `IncludedIsInTree` (what `check_inclusion` accepts
  under a tree's root, whatever the proof, the index and the size, is a leaf of
  that tree), and `PathsAreAccepted` (it accepts the path that
  `inclusion_proof` makes for a leaf, for every leaf). The recursive functions
  are taken apart by the least span or index at which a statement fails (`Least`),
  since induction theorems cannot be instantiated here. `IncludedIsInTree`
  follows the rebuilt hash downward from the root: a hash that is a node of the
  tree and is a pair has its two parts among the nodes. `PathsAreAccepted`
  follows the path upward: at a node of height h that begins at a multiple of
  2^h (`IsPlace`), the verifier's two positions are the leaf's and the last
  leaf's, divided by 2^h, and both the halving of a right edge and the jump over
  a short one keep that. It needs what the doubling loops and the halving loop
  compute (`SplitIsPower`, `BitCeilIsPower`, `ZerosOfMultiple`) and the powers of
  two, from `Powers` to `QuotientOfPowers`. The second half of the module takes
  `_subproof` apart in the same way (`PartStep`) and has the steps of the loops
  of `verify_subtree_proof` as facts about their variables' values (`Aligning`,
  `Folding`, `Stripping`), for `VerifierProofs`, which is about the calls. At
  the end, what `check_inclusion` refuses: `OnlyThePathIsAccepted` (of all proofs,
  the path of a leaf is the only one it accepts for that leaf under its log's
  root), since its walk comes to the hash of a range of distinct leaves by no
  other way than the leaf's path within it (`WalkFollowsPath`, upward by the
  length walked); and `NotInLongerLog`, on its own weak spot: it holds neither the
  length of a path nor its end to the size, and yet no proof made of the log's
  hashes and the next leaf's leads to the root of the longer log. It would have to
  join the next leaf on the right of a whole place that ends with the log, and
  there the two positions are equal (`OnePosition`), so that it joins on the left.
* `VerifiedExportProofs`, for logs of every length, any directory changes and
  any trust root: `ReaderHoldsTheTree` (`ReaderInv`: once the root has been
  compared, the leaves in hand are the tree of the checkpoint that was read,
  whatever was refreshed since), and from it `AnswersAreOfTheTree`,
  `AbsencesAreHonest`. For an absence that stands, the invariant also keeps what
  the checks before the replay have established of the checkpoint (`Vouched`): it
  is signed by the log's key that was read, and by as many witnesses as the root
  asks, and its size bounds the answer's. `SoundExportsAreAnswered` needs a second
  invariant (`QuietInv`) of the runs in which nobody touches the directory while
  its five files are read; it asks nothing of a reduction whose hash the log does
  not commit.
* `VerifierProofs`, for logs of every length: `CheckedReceiptsAreTrue` and
  `IssuedReceiptsCheckOut`, with `ReceiptInv`: however fields of receipts are
  exchanged, the row is one that `reduce.py` could have made and the checkpoint
  one of the log's. Of the four links the first and the second give the leaf,
  by `IncludedIsInTree`, and the fourth the row; the other direction is
  `PathsAreAccepted`.

  Of `verify_subtree_proof`, for any proof at all: `PositionsStayOrdered`. The
  inner loop of `subtree.py:110` has no bound; it ends because `sn` is not 0
  there, and that holds because the loop's head refuses `tn = 0` and
  `fn <= sn <= tn` survives halving.

  And `AnyCallIsJudgedExactly`: for any arguments, and any leaf hashes D as many
  as the size says, it accepts under the root of D's tree exactly the proof that
  `subtree_proof` makes over D, for exactly the range's hash. The first loops
  climb while the range begins at a block's start (`Rising`), and end with the
  range a node of the tree (`SubtreeIsNode`) or with its last part one
  (`SubtreeEndsInNode`). From there the loop climbs the way of leaf `end - 1`
  (`OnWay`): its positions are those of `start`, `end - 1` and the last leaf,
  divided by 2^h, and tell on which side the next hash is joined (`LeftParent`,
  `RightParent`). At each place the invariant (`VerifierInv`, by `Rebuilt`) says
  that `sr` is D's hash of the place only if the hashes used so far are the part
  of D's proof within the place (`Part`) and `fr` is that of the range's part
  there, and that it is if they are and the hash asked about is D's. One
  direction is `NodeHashInjective`, read downward; the other needs that the
  genuine proof begins with its part within every place the loop reaches
  (`PartBegins`), which holds because the loop never starts at a right part that
  the range has not entered (`Live`). `fr` and `sr` at the root, and a proof used
  up there, give the verdict. `VerdictsAreExact` and `RebuiltAreNodes` follow for
  the calls the runs make; for the root of a longer log, which the first does
  not judge, `OtherRootInv` says that no hash rebuilt from the log's own hashes
  and one mistake has the later leaf at its end (`EndHash`), because different
  ranges of distinct leaves have different hashes (`RangesDiffer`).

  `TwoVerifiersAlwaysAgree` puts the two together, for the calls the runs make
  about one leaf: `inclusion_proof` and `subtree_proof` make the same proof for it
  (`PathIsPart`, by the least slice), under the tree's root each verifier accepts
  that proof alone, and under the longer log's root neither accepts any. That is
  for the roots a log has: under any other hash `check_inclusion`, which does not
  hold a path to its length, may accept what the other refuses.
* `HFWatchProofs`, for any models, runs, moves, faults and kills, provided every
  run submits (`MayDryRun = FALSE`): `StateIsAlwaysLogged` and
  `BaselineMovesOnlyWithItsLeaf`. Neither is inductive: while a run is on, its
  digest and its leaves are on their way. `Inv` says where: the leaves of what
  has moved are in `changed` while models are observed, then in the queue or the
  log, and in the log when the state is saved; the digest is first in the queue,
  or in the log. `PInv` adds that `changed` has one leaf for every model that has
  moved, under a name the Hub gives what the line leads to or under none
  (`NamesWhatMoved`), that the digest has exactly these names and the whole set
  (`DigestSaysAll`), and that a model still to be observed has not been. From
  these, since names that lines may share can only be counted
  (`NamesAreTruthful`), the refinement: `ImplementsObservations`. An append of a
  digest is `Record`, a save is `Adopt`, every other step a stutter. `RInv`, on
  top of both, ties the leaves to their run by their places, for
  `DetailsStandBetweenDigests` and `RunsAreOnRecordOnce`: nothing of a run is in
  the log while it observes; while it submits, there is an n such that its leaves
  in the log are the first n of what is due, its digest and then its details in
  order, and the queue is the rest (`Due`, `Sent`); when it ends well, all of them
  are there (`Complete`). Dry runs included: `CardsBelong` (every fingerprint on its
  way to the log is of one commit) and `TypeCorrect` (the list of models has none
  twice, so what is still to ask for has been neither observed nor given up).
* `ExtlogWatchProofs`, for any items and publishers: `ImplementsObservations`
  and from it `StateIsAlwaysLogged` (`MayDryRun = FALSE`), and, dry runs included,
  `LeavesAreOfTheirRun` and `TypeCorrect`. The first claims nothing of a body that
  was cut short without a declared length, which the code takes for the artifact
  (see Noticed).
* `FetchHeadersProofs`, for ranges, batches and chains of every size, from
  `FetchAssumption` and `FilesAssumption`: `FetchedIsKept`, which is
  of both files: in a run on the progress file's `--to`, a header of the run's
  range leaves that file only with its removal, when that very header is in
  `headers.bin` (`ProgressIsKept`), and `headers.bin` is emptied only when all that
  is to be written in its place is in the progress file (`BinIsKept`). What the progress file has for the
  `--to` of a run is never more than the run holds (`HoldsWhatIsSaved`), so that
  saving loses nothing; `BinIsWhole` says that from the last save on the progress
  file is what the run holds, and that at the removal `headers.bin` is of the
  run's range and of these headers. And
  `WorkIsBounded`: the batches received for a `--to` are at most those it takes
  and two for every fault. A count of missing heights is not inductive, because
  batches are cut from wherever a run meets the first missing height. `WorkInv`
  keeps instead that the missing heights can be covered by as many batches,
  wherever they begin, as are still allowed: an answer takes one off the cover,
  since the batch that ends at the highest missing height does all that any one
  batch could (`CoverTop`); a height passed over adds one, a run that stops at
  another `--from` one (`CoverCut`), a kill before a save one, and each of these
  is paid for by a fault, which is where the two come from. Attempting the proof
  corrected the property: an earlier bound for the range of the run alone was
  right only on its instance, because a run on another `--from` inherits what
  was received for its `--to`.
* `MirrorClientProofs`, for every package size that is a power of two
  (`MirrorAssumption`; the code's packages are of 256), every `--from`, log size
  and number of faults: `BlocksTileTheUpload` (the packages follow each other from
  the first entry to the last, none is empty, and each but the first begins a
  block, which is why a mirror that is told only the two ends cuts them in the
  same places), and with `MirrorInv`: `MirrorTyped`, `ProofsVerify`,
  `OnlyGapsRefused`, `GoodRunsMirror`. `MirrorInv` adds to those three: no
  request under way, the late ones included, is of a checkpoint newer than the
  newest a run has read (`CheckpointsInOrder`, `Sent`); what a run has still to
  send is the rest of what `build_packages` made of its upload (`Remaining`); and
  a mirror that held what comes before the upload holds all of it that was sent
  so far (`UploadReached`).

Only model-checked: `Ed25519`, whose properties rest on the field having inverses
and on the addition being a group's, algebra by degrees of polynomials modulo a
prime that the installed provers do not do; the run tries every encoding of a
small curve instead; and liveness (`Terminates`, `RangeIsCollected`, `CatchesUp`, `EverythingIsMirrored`),
which TLAPS cannot do here.

## Not modelled

* `git_attest.py`, `attest_repos.py`, `hf_attest.main`: each formats what a
  command or a request returns and submits it, once; no state, nothing to
  interleave with.
* `jcs.py`: text. `corpus/divergence.py`: counts what four readings of a leaf's
  type make of an export, and prints the counts.
* Within modelled programs: arguments that do not parse, files that are not JSON
  (they raise), `--table`'s files, `--dry-run` of `mirror_client.py`, the digest
  of the specification, the bytes within a token of a proof, the arithmetic of
  `bits_to_target`. `headers.json` is written in one step, although it is opened
  and written in two.
* Runs of one watcher that overlap. Runs without `--submit` are in `HFWatch` and
  `ExtlogWatch` and not in the instances: the promise is not theirs.
* The server's side of anything but the mirror, and of that only what it takes.
