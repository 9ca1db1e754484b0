----------------------------- MODULE ExtlogWatch -----------------------------
(***************************************************************************)
(* extlog_watch.py: scheduled runs that fetch a list of artifacts and of   *)
(* log heads their publishers serve, append to the log one leaf with all   *)
(* of them and with what has changed since the state file was written, and *)
(* then save the state file.                                               *)
(*                                                                         *)
(* The publishers move between any two requests; any request may fail, an  *)
(* append may be made without its answer coming back, and the process may  *)
(* be killed.  An artifact whose body is cut short ends the run if its     *)
(* length was declared, and is taken for the artifact if it was not.       *)
(***************************************************************************)
EXTENDS Integers, SequencesExt

CONSTANTS Items,        \* all artifacts and logs of logs.json, as they are fetched
          Artifacts,    \* those that are artifacts
          Lengthless,   \* artifacts served without a Content-Length
          Versions,     \* what a publisher may serve for an item
          Cut,          \* the digest of a body cut short
          MayDryRun,    \* whether some runs lack --submit
          MaxMoves, MaxFaults

ASSUME ExtlogAssumption ==
  /\ Items \in Seq(ToSet(Items)) /\ IsInjective(Items)
  /\ Artifacts \subseteq ToSet(Items) /\ Lengthless \subseteq Artifacts
  /\ Cut \notin Versions /\ MayDryRun \in BOOLEAN
  /\ MaxMoves \in Nat /\ MaxFaults \in Nat

VARIABLES world, moves,   \* what is served for each item, and how often it has changed
          faults,         \* how often something has gone wrong (bounded)
          log,            \* the leaves appended; their observed_at is left out
          state,          \* the state file
          pc, dry, prev, todo, obs, changed,   \* the run
          since           \* what has been served since the run began (a history)

memory == <<dry, prev, todo, obs, changed>>
vars   == <<world, moves, faults, log, state, pc, memory, since>>

Names   == ToSet(Items)
Nothing == [i \in {} |-> Cut]
Seen    == UNION {[S -> Versions \cup {Cut}] : S \in SUBSET Names}

TypeOK ==
  /\ world \in [Names -> Versions] /\ since \in [Names -> SUBSET Versions]
  /\ state \in Seen /\ prev \in Seen /\ obs \in Seen
  /\ \A leaf \in log : leaf.set \in Seen /\ leaf.changed \subseteq DOMAIN leaf.set
  /\ pc \in {"idle", "fetch", "submit", "save"}
  /\ pc # "idle" => DOMAIN obs \cap ToSet(todo) = {} /\ Artifacts \subseteq DOMAIN obs \cup ToSet(todo)
  /\ changed \subseteq DOMAIN obs

-----------------------------------------------------------------------------

Init ==
  /\ \E v \in Versions : world = [i \in Names |-> v]
  /\ moves = 0 /\ faults = 0
  /\ log = {} /\ state = Nothing
  /\ pc = "idle" /\ dry = FALSE /\ prev = Nothing /\ todo = << >>
  /\ obs = Nothing /\ changed = {}
  /\ since = [i \in Names |-> {}]

\* A publisher serves something else, the new version or an older one again.
Move ==
  /\ moves < MaxMoves /\ moves' = moves + 1
  /\ \E i \in Names, v \in Versions :
       /\ v # world[i] /\ world' = [world EXCEPT ![i] = v]
       /\ since' = IF pc = "idle" THEN since ELSE [since EXCEPT ![i] = @ \cup {v}]
  /\ UNCHANGED <<faults, log, state, pc, memory>>

Fault == faults < MaxFaults /\ faults' = faults + 1

Start ==
  /\ pc = "idle" /\ pc' = "fetch"
  /\ dry' \in IF MayDryRun THEN BOOLEAN ELSE {FALSE}
  /\ prev' = state /\ todo' = Items
  /\ since' = [i \in Names |-> {world[i]}]
  /\ UNCHANGED <<world, moves, faults, log, state, obs, changed>>

\* The next item goes into the observation with the value v, or is left out.
Got(v) == obs' = [i \in DOMAIN obs \cup {Head(todo)} |-> IF i = Head(todo) THEN v ELSE obs[i]]

Fetching(kind) == pc = "fetch" /\ todo # << >> /\ Head(todo) \in kind

Fetched ==
  /\ todo' = Tail(todo)
  /\ UNCHANGED <<world, moves, log, state, pc, dry, prev, changed, since>>

Fetch ==
  /\ Fetching(Names)
  /\ Got(world[Head(todo)])
  /\ Fetched /\ UNCHANGED faults

FetchCut ==
  /\ Fetching(Lengthless)
  /\ Got(Cut)
  /\ Fetched /\ Fault

\* Mutant of HeadFails: the head the last run saw stands in for this one's.
HeadFailsAndStays ==
  /\ Fetching(Names \ Artifacts)
  /\ IF Head(todo) \in DOMAIN prev THEN Got(prev[Head(todo)]) ELSE UNCHANGED obs
  /\ Fetched /\ Fault

\* btlog_head returns None, and the log is left out of what the run saw.
HeadFails ==
  /\ Fetching(Names \ Artifacts)
  /\ UNCHANGED obs
  /\ Fetched /\ Fault

End ==
  /\ pc' = "idle" /\ dry' = FALSE /\ prev' = Nothing /\ todo' = << >>
  /\ obs' = Nothing /\ changed' = {}
  /\ since' = [i \in Names |-> {}]

\* Mutant of FetchRaises: an artifact is left out as a log is.
FetchRaisesAndSkips ==
  /\ Fetching(Names)
  /\ UNCHANGED obs
  /\ Fetched /\ Fault

\* An artifact that is not had whole, or a log's answer that is JSON and no list
\* of commits, ends the run: an exception leaves main.
FetchRaises ==
  /\ Fetching(Names)
  /\ End /\ Fault
  /\ UNCHANGED <<world, moves, log, state>>

Differs(was, i) == i \in DOMAIN was /\ was[i] # obs[i]

\* Mutant of Compare: what the run left out counts as changed too.
CompareWithMissing ==
  /\ pc = "fetch" /\ todo = << >>
  /\ changed' = {i \in DOMAIN obs : i \notin DOMAIN prev \/ Differs(prev, i)}
  /\ pc' = IF dry THEN "save" ELSE "submit"
  /\ UNCHANGED <<world, moves, faults, log, state, dry, prev, todo, obs, since>>

Compare ==
  /\ pc = "fetch" /\ todo = << >>
  /\ changed' = {i \in DOMAIN obs : Differs(prev, i)}
  /\ pc' = IF dry THEN "save" ELSE "submit"
  /\ UNCHANGED <<world, moves, faults, log, state, dry, prev, todo, obs, since>>

Leaf == [set |-> obs, changed |-> changed]

Submit ==
  /\ pc = "submit" /\ pc' = "save"
  /\ log' = log \cup {Leaf}
  /\ UNCHANGED <<world, moves, faults, state, memory, since>>

\* Mutant of SubmitFails: the failure is printed, and the state saved.
SubmitFailsAndSaves ==
  /\ pc = "submit" /\ pc' = "save"
  /\ Fault
  /\ UNCHANGED <<world, moves, log, state, memory, since>>

\* The append was not made, or it was and its answer is lost: either way an
\* exception leaves main before the state is saved.
SubmitFails ==
  /\ pc = "submit"
  /\ log' \in {log, log \cup {Leaf}}
  /\ End /\ Fault
  /\ UNCHANGED <<world, moves, state>>

\* Mutant of Save: the file is left alone when nothing has changed.
SaveChanges ==
  /\ pc = "save"
  /\ state' = IF changed = {} /\ state # Nothing THEN state ELSE obs
  /\ End
  /\ UNCHANGED <<world, moves, faults, log>>

\* The state is written beside the file and moved over it in one call.
Save ==
  /\ pc = "save"
  /\ state' = obs
  /\ End
  /\ UNCHANGED <<world, moves, faults, log>>

Killed ==
  /\ pc # "idle"
  /\ End /\ Fault
  /\ UNCHANGED <<world, moves, log, state>>

Run == Start \/ Fetch \/ Compare \/ Submit \/ Save

Next == Run \/ Move \/ FetchCut \/ HeadFails \/ FetchRaises \/ SubmitFails \/ Killed

Spec == Init /\ [][Next]_vars

\* The command is scheduled and a run goes on.  Publishers and faults are bounded,
\* not fair.
FairSpec == Spec /\ WF_vars(Run)

-----------------------------------------------------------------------------

\* What the watchers promise, kept by the log and the state file.  What has moved is
\* listed under the name it has in the set, subject/name, and no two share one.
OnRecord == {[set |-> leaf.set, changed |-> [i \in leaf.changed |-> i]] : leaf \in log}
ItsName  == [i \in Names |-> {i}]
Promise  == INSTANCE Observations WITH record <- OnRecord, baseline <- state,
                                       NamesOf <- ItsName

\* Through every failure and kill the state file moves only to an observation the
\* log holds, in a leaf that names exactly what has moved from the file.
RecordedBeforeAdopted == Promise!Spec

\* extlog_watch.py:24, "as served to us ... at that moment": whatever is observed of a
\* log, and of an artifact whose length is declared, was served whole since the run
\* began, and so is nothing older.  An artifact served without a length is held to
\* that unless its body was cut short: then fetch takes the cut body for the artifact,
\* which its docstring says it must not, and nothing is claimed of what is observed.
ObservedInItsRun ==
  \A i \in DOMAIN obs : i \notin Lengthless \/ obs[i] # Cut => obs[i] \in since[i]

\* When publishers and faults come to rest, the state file gets to what is served
\* and stays there, with a leaf in the log that says so.
CatchesUp == <>[](state = world /\ \E leaf \in log : leaf.set = world)
=============================================================================
