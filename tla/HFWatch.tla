------------------------------- MODULE HFWatch -------------------------------
(***************************************************************************)
(* hf_watch.py: runs that observe a list of models on the Hub              *)
(* (hf_attest.attest), append to the log a digest of everything observed   *)
(* and a detail leaf for every model that moved, and then save what they   *)
(* observed for the next run to compare with.                              *)
(*                                                                         *)
(* The Hub moves on its own between any two requests, a request may fail,  *)
(* an append may fail or be made without its answer coming back, and the   *)
(* process may be killed between any two steps.  Only the log and the      *)
(* state file outlive a run.                                               *)
(*                                                                         *)
(* A model goes by two names: the state file and the set of a digest know  *)
(* it by its line in models.txt; what a digest says has changed is named   *)
(* as the Hub's metadata names it, which for a repository that has been    *)
(* renamed is another name than the line's.                                *)
(***************************************************************************)
EXTENDS Integers, SequencesExt

CONSTANTS Ids,          \* the lines of models.txt, in order
          Commits,      \* head commits a model may have
          NamesOf,      \* for each line, what the Hub may call what it leads to
          NoSha,        \* the metadata names no head commit
          NoId,         \* the metadata has no name
          Unavailable,  \* a card the Hub answered an HTTP error for
          MayDryRun,    \* whether some runs lack --submit
          MaxRuns, MaxMoves, MaxFaults,
          MaxEvents     \* moves and faults together

ASSUME WatchAssumption ==
  /\ Ids \in Seq(ToSet(Ids)) /\ IsInjective(Ids)
  /\ NoSha \notin Commits /\ Unavailable \notin Commits
  /\ \A m \in ToSet(Ids) : NoId \notin NamesOf[m]
  /\ MayDryRun \in BOOLEAN
  /\ MaxRuns \in Nat /\ MaxMoves \in Nat /\ MaxFaults \in Nat /\ MaxEvents \in Nat

VARIABLES hub, moves,   \* the Hub, and how often it has moved (bounded)
          log,          \* what the watcher's runs have appended to the log
          state,        \* the state file; no model is in it before the first run
          faults,       \* how often something has gone wrong (bounded)
          run, rc,      \* the run that is on or was last, and how it ended
          pc, dry, prev, todo, meta, observed, changed, failed, queue

outside == <<hub, moves, faults>>
memory  == <<dry, prev, todo, meta, observed, changed, failed, queue>>
vars    == <<outside, log, state, run, rc, pc, memory>>

Models == ToSet(Ids)

\* A card is known by the commit it belongs to.
Fingerprint == [sha : Commits \cup {NoSha}, card : Commits \cup {Unavailable},
                hidden : BOOLEAN]
Observation == UNION {[S -> Fingerprint] : S \in SUBSET Models}

Nothing == [m \in {} |-> NoSha]

DigestLeaf(r, set, ch, fl) ==
  [kind |-> "digest", run |-> r, set |-> set, changed |-> ch, failed |-> fl]

\* model is the line, which the leaf's subject and observed.path have; id is the
\* Hub's name, its model.id.
DetailLeaf(r, m, id, fp, was) ==
  [kind |-> "detail", run |-> r, model |-> m, id |-> id, fp |-> fp, was |-> was]

Digests == {i \in DOMAIN log : log[i].kind = "digest"}
Details == {i \in DOMAIN log : log[i].kind = "detail"}

Repository == [id : UNION {NamesOf[m] : m \in Models}, head : Commits,
               hidden : BOOLEAN, up : BOOLEAN]

TypeOK ==
  /\ hub \in [Models -> Repository] /\ \A m \in Models : hub[m].id \in NamesOf[m]
  /\ moves \in 0..MaxMoves /\ faults \in 0..MaxFaults /\ run \in 0..MaxRuns
  /\ state \in Observation /\ prev \in Observation /\ observed \in Observation
  /\ rc \in {"none", "ok", "failed", "killed"}
  /\ pc \in {"idle", "meta", "card", "submit", "save"}
  /\ DOMAIN observed \cap failed = {}
  /\ pc \in {"meta", "card"} => DOMAIN observed \cup failed = Models \ ToSet(todo)
  /\ {changed[i].model : i \in DOMAIN changed} \subseteq DOMAIN observed

-----------------------------------------------------------------------------

EmptyMemory ==
  /\ dry' = FALSE /\ prev' = Nothing /\ todo' = << >> /\ meta' = NoSha
  /\ observed' = Nothing /\ changed' = << >> /\ failed' = {} /\ queue' = << >>

Init ==
  /\ \E c \in Commits, id \in [Models -> UNION {NamesOf[m] : m \in Models}] :
       /\ \A m \in Models : id[m] \in NamesOf[m]
       /\ hub = [m \in Models |-> [id |-> id[m], head |-> c, hidden |-> FALSE, up |-> TRUE]]
  /\ moves = 0 /\ faults = 0
  /\ log = << >> /\ state = Nothing
  /\ run = 0 /\ rc = "none" /\ pc = "idle"
  /\ dry = FALSE /\ prev = Nothing /\ todo = << >> /\ meta = NoSha
  /\ observed = Nothing /\ changed = << >> /\ failed = {} /\ queue = << >>

\* A push, a repository made private or gated, one pulled or put back, as seen from
\* every line that leads to it.
RepositoryMoves(m) ==
  LET Becomes(repo) ==
        hub' = [x \in Models |-> IF hub[x].id = hub[m].id THEN repo ELSE hub[x]]
  IN  \/ \E c \in Commits \ {hub[m].head} : Becomes([hub[m] EXCEPT !.head = c])
      \/ Becomes([hub[m] EXCEPT !.hidden = ~@])
      \/ Becomes([hub[m] EXCEPT !.up = ~@])

\* The line comes to lead to a repository of another name: to one that another line
\* leads to already, or to its own, renamed.
LineMoves(m) ==
  \E n \in NamesOf[m] \ {hub[m].id} :
    \/ \E x \in Models : hub[x].id = n /\ hub' = [hub EXCEPT ![m] = hub[x]]
    \/ /\ \A x \in Models : hub[x].id # n
       /\ hub' = [hub EXCEPT ![m] = [hub[m] EXCEPT !.id = n]]

\* Moves after the last request of the last run are left out, which nothing sees.
HubMoves ==
  /\ moves < MaxMoves /\ moves + faults < MaxEvents /\ moves' = moves + 1
  /\ run < MaxRuns \/ pc \in {"meta", "card"}
  /\ \E m \in Models : RepositoryMoves(m) \/ LineMoves(m)
  /\ UNCHANGED <<faults, log, state, run, rc, pc, memory>>

Fault ==
  /\ faults < MaxFaults /\ moves + faults < MaxEvents /\ faults' = faults + 1
  /\ UNCHANGED <<hub, moves>>

\* A request that does not succeed: the Hub's doing if the model is not served.
Unserved(served) == IF served THEN Fault ELSE UNCHANGED outside

Start ==
  /\ pc = "idle" /\ run < MaxRuns
  /\ run' = run + 1 /\ rc' = "none"
  /\ prev' = state /\ todo' = Ids
  /\ dry' \in IF MayDryRun THEN BOOLEAN ELSE {FALSE}
  /\ pc' = "meta"
  /\ UNCHANGED <<outside, log, state, meta, observed, changed, failed, queue>>

\* The first request of attest: the metadata, as of now.
GetMeta ==
  LET repo == hub[Head(todo)]
      told == [sha |-> repo.head, hidden |-> repo.hidden, id |-> repo.id]
  IN  /\ pc = "meta" /\ todo # << >>
      /\ repo.up
      /\ \/ meta' = told /\ UNCHANGED outside
         \/ meta' \in {[told EXCEPT !.sha = NoSha], [told EXCEPT !.id = NoId]} /\ Fault
      /\ pc' = "card"
      /\ UNCHANGED <<log, state, run, rc, dry, prev, todo, observed, changed, failed, queue>>

\* The body of the loop once attest has returned.
Observe(card) ==
  LET m  == Head(todo)
      fp == [sha |-> meta.sha, card |-> card, hidden |-> meta.hidden]
  IN  /\ observed' = [x \in DOMAIN observed \cup {m} |-> IF x = m THEN fp ELSE observed[x]]
      /\ changed' = IF m \in DOMAIN prev /\ prev[m] # fp
                    THEN Append(changed, DetailLeaf(run, m, meta.id, fp, prev[m]))
                    ELSE changed
      /\ todo' = Tail(todo) /\ meta' = NoSha
      /\ pc' = "meta"
      /\ UNCHANGED <<log, state, run, rc, dry, prev, failed, queue>>

\* Mutant of GetCard: the card is read from the head and not from the commit.
GetCardOfHead ==
  /\ pc = "card" /\ hub[Head(todo)].up
  /\ Observe(hub[Head(todo)].head)
  /\ UNCHANGED outside

\* The second request: the card at the commit the metadata named, or at "main"
\* when it named none.
GetCard ==
  /\ pc = "card" /\ hub[Head(todo)].up
  /\ Observe(IF meta.sha # NoSha THEN meta.sha ELSE hub[Head(todo)].head)
  /\ UNCHANGED outside

\* An HTTP error on the card is an observation, whatever its cause.
CardRefused ==
  /\ pc = "card"
  /\ Observe(Unavailable)
  /\ Unserved(hub[Head(todo)].up /\ ~hub[Head(todo)].hidden)

\* Mutant of FetchFails: the model is tried again.
FetchFailsAndRetries ==
  /\ pc = "meta" \/ pc = "card"
  /\ todo # << >>
  /\ failed' = failed \cup {Head(todo)}
  /\ meta' = NoSha /\ pc' = "meta"
  /\ UNCHANGED <<log, state, run, rc, dry, prev, todo, observed, changed, queue>>
  /\ Unserved(hub[Head(todo)].up)

\* Any other failure, of either request, drops the model from this run.
FetchFails ==
  /\ pc = "meta" \/ pc = "card"
  /\ todo # << >>
  /\ failed' = failed \cup {Head(todo)}
  /\ todo' = Tail(todo) /\ meta' = NoSha /\ pc' = "meta"
  /\ UNCHANGED <<log, state, run, rc, dry, prev, observed, changed, queue>>
  /\ Unserved(hub[Head(todo)].up)

\* One name for every model that has moved, as the Hub gave it; two may be the same.
\* (The code puts them in alphabetical order, and so does not get past the sorting
\* when there are several and one of them is no name.)
ChangedIds == [i \in DOMAIN changed |-> changed[i].id]

Sortable == Len(changed) < 2 \/ \A i \in DOMAIN changed : changed[i].id # NoId

Digest == DigestLeaf(run, observed, ChangedIds, failed)

\* Mutant of Queue: the digest is appended after the details.
QueueDetailsFirst ==
  /\ pc = "meta" /\ todo = << >> /\ Sortable
  /\ queue' = Append(changed, Digest)
  /\ pc' = IF dry THEN "save" ELSE "submit"
  /\ UNCHANGED <<outside, log, state, run, rc, dry, prev, todo, meta, observed, changed, failed>>

Queue ==
  /\ pc = "meta" /\ todo = << >> /\ Sortable
  /\ queue' = <<Digest>> \o changed
  /\ pc' = IF dry THEN "save" ELSE "submit"
  /\ UNCHANGED <<outside, log, state, run, rc, dry, prev, todo, meta, observed, changed, failed>>

End(how) == pc' = "idle" /\ rc' = how /\ EmptyMemory

\* sorted() raises, and main is left with nothing appended and nothing saved.
SortRaises ==
  /\ pc = "meta" /\ todo = << >> /\ ~Sortable
  /\ End("failed")
  /\ UNCHANGED <<outside, log, state, run>>

Submit ==
  /\ pc = "submit" /\ queue # << >>
  /\ log' = Append(log, Head(queue))
  /\ queue' = Tail(queue)
  /\ UNCHANGED <<outside, state, run, rc, pc, dry, prev, todo, meta, observed, changed, failed>>

\* Mutant of SubmitFails: the failure is printed, and the loop goes on.
SubmitFailsAndGoesOn ==
  /\ pc = "submit" /\ queue # << >>
  /\ queue' = Tail(queue)
  /\ UNCHANGED <<log, state, run, rc, pc, dry, prev, todo, meta, observed, changed, failed>>
  /\ Fault

\* The append did not happen: return 1, the state file left as it is.
SubmitFails ==
  /\ pc = "submit" /\ queue # << >>
  /\ End("failed")
  /\ UNCHANGED <<log, state, run>>
  /\ Fault

\* Mutant of SubmitUnanswered: the leaf is submitted again.
SubmitUnansweredAndRetried ==
  /\ pc = "submit" /\ queue # << >>
  /\ log' = Append(log, Head(queue))
  /\ UNCHANGED <<state, run, rc, pc, memory>>
  /\ Fault

\* The append happened, and its answer was lost: return 1 all the same.
SubmitUnanswered ==
  /\ pc = "submit" /\ queue # << >>
  /\ log' = Append(log, Head(queue))
  /\ End("failed")
  /\ UNCHANGED <<state, run>>
  /\ Fault

AllSubmitted ==
  /\ pc = "submit" /\ queue = << >>
  /\ pc' = "save"
  /\ UNCHANGED <<outside, log, state, run, rc, memory>>

\* The state is written beside the file and moved over it in one call.
Save ==
  /\ pc = "save"
  /\ state' = observed
  /\ End("ok")
  /\ UNCHANGED <<outside, log, run>>

Killed ==
  /\ pc # "idle"
  /\ End("killed")
  /\ UNCHANGED <<log, state, run>>
  /\ Fault

Next == \/ HubMoves \/ Start \/ GetMeta \/ GetCard \/ CardRefused \/ FetchFails
        \/ Queue \/ SortRaises \/ Submit \/ SubmitFails \/ SubmitUnanswered \/ AllSubmitted
        \/ Save \/ Killed

Spec == Init /\ [][Next]_vars

-----------------------------------------------------------------------------

\* What the watchers promise, kept by the digests and the state file.
OnRecord == {[set |-> log[i].set, changed |-> log[i].changed] : i \in Digests}
MayBeNamed == [m \in Models |-> NamesOf[m] \cup {NoId}]
Promise  == INSTANCE Observations WITH record <- OnRecord, baseline <- state,
                                       NamesOf <- MayBeNamed

\* Through every failure and kill the state file moves only to an observation the
\* log holds, in a digest that has one of the Hub's names for each of the models that
\* have moved from the file and no name more, and every digest does, of the file as
\* it was when it was appended.
RecordedBeforeAdopted == Promise!Spec

\* What the next run will compare with is on the record: a digest in the log
\* covers exactly the state file, through failed and unanswered appends and kills.
StateIsLogged == state # Nothing => \E i \in Digests : log[i].set = state

MovesHaveLeaves ==
  \A m \in DOMAIN state \cap DOMAIN state' :
    state'[m] # state[m] =>
      \E i \in Details' : /\ log'[i].model = m
                          /\ log'[i].was = state[m] /\ log'[i].fp = state'[m]

\* hf_watch.py:13-16: the baseline moves on from one observation of a model to
\* another only when the log holds the leaf that says so.
BaselineMovesWithItsLeaf == [][MovesHaveLeaves]_state

\* A detail leaf comes after the digest of its run, which has the leaf's name among the
\* changed and, under the line of models.txt, what the leaf says; and after an earlier
\* digest that has, under that line, what the leaf says the model has changed from.
DetailsAreFramed ==
  \A i \in Details :
    LET leaf == log[i] IN
    /\ \E j \in Digests : /\ j < i /\ log[j].run = leaf.run
                          /\ leaf.id \in ToSet(log[j].changed)
                          /\ leaf.model \in DOMAIN log[j].set
                          /\ log[j].set[leaf.model] = leaf.fp
    /\ \E j \in Digests : /\ j < i /\ log[j].run < leaf.run
                          /\ leaf.model \in DOMAIN log[j].set
                          /\ log[j].set[leaf.model] = leaf.was

\* The two requests of one observation are about one commit, however the Hub
\* moves between them.
CardBelongsToSha ==
  \A i \in Digests : \A m \in DOMAIN log[i].set :
    LET fp == log[i].set[m] IN fp.sha # NoSha => fp.card \in {fp.sha, Unavailable}

\* "One digest per run, so a quiet run is still on the record": no run is there
\* twice, and one that ends well is there, complete: the names its digest lists are
\* those of its detail leaves, one for one, also where two models have one name.
OneDigestPerRun ==
  /\ \A i \in Digests, j \in Digests : log[i].run = log[j].run => i = j
  /\ rc = "ok" =>
       \E i \in Digests :
         /\ log[i].run = run
         /\ \E of \in Bijection(DOMAIN log[i].changed, {j \in Details : log[j].run = run}) :
              \A k \in DOMAIN log[i].changed : log[i].changed[k] = log[of[k]].id
=============================================================================
