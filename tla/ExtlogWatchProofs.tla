-------------------------- MODULE ExtlogWatchProofs --------------------------
(***************************************************************************)
(* For any artifacts and logs, and however their publishers and the faults *)
(* of a run behave: a leaf speaks of its own run only, and of every        *)
(* artifact in it, and ExtlogWatch implements Observations.  For the last, *)
(* dry runs are left out, because they save the state without having       *)
(* appended anything.                                                      *)
(***************************************************************************)
EXTENDS ExtlogWatch, TLAPS

\* What is served during a run is remembered as such.
Remembered ==
  /\ world \in [Names -> Versions] /\ since \in [Names -> SUBSET Versions]
  /\ todo \in Seq(Names)
  /\ DOMAIN obs \subseteq Names
  /\ pc # "idle" => \A i \in Names : world[i] \in since[i]
  /\ pc = "idle" => obs = Nothing
  /\ ObservedInItsRun

LEMMA InitRemembered == Init => Remembered
<1> SUFFICES ASSUME Init PROVE Remembered OBVIOUS
<1>1. obs = Nothing /\ pc = "idle" /\ todo \in Seq(Names) BY DEF Init
<1>2. DOMAIN obs = {} BY <1>1 DEF Nothing
<1>3. world \in [Names -> Versions] /\ since \in [Names -> SUBSET Versions] BY DEF Init
<1> QED BY <1>1, <1>2, <1>3 DEF Remembered, ObservedInItsRun

LEMMA EndRemembered ==
  ASSUME End, world' = world, Remembered PROVE Remembered'
<1>1. /\ obs' = Nothing /\ pc' = "idle" /\ todo' = << >>
      /\ since' = [i \in Names |-> {}]
      BY DEF End
<1>2. DOMAIN obs' = {} BY <1>1 DEF Nothing
<1>3. todo' \in Seq(Names) BY <1>1
<1> QED BY <1>1, <1>2, <1>3 DEF Remembered, ObservedInItsRun, Nothing

LEMMA GotRemembered ==
  ASSUME Remembered, pc = "fetch", todo # << >>, NEW v, Got(v) \/ UNCHANGED obs, Fetched,
         v \in since[Head(todo)] \/ (v = Cut /\ Head(todo) \in Lengthless)
  PROVE  Remembered'
<1>1. UNCHANGED <<world, pc, since>> /\ todo' = Tail(todo) BY DEF Fetched
<1>2. todo \in Seq(Names) /\ Head(todo) \in Names /\ todo' \in Seq(Names)
      BY <1>1 DEF Remembered
<1>3. CASE UNCHANGED obs BY <1>1, <1>2, <1>3 DEF Remembered, ObservedInItsRun, Nothing
<1>4. CASE Got(v)
  <2> DEFINE h == Head(todo)
  <2> HIDE DEF h
  <2>1. obs' = [i \in DOMAIN obs \cup {h} |-> IF i = h THEN v ELSE obs[i]]
        BY <1>4 DEF Got, h
  <2>2. h \in Names /\ (v \in since[h] \/ (v = Cut /\ h \in Lengthless))
        BY <1>2 DEF h
  <2>3. DOMAIN obs' \subseteq Names BY <2>1, <2>2 DEF Remembered
  <2>4. ObservedInItsRun' BY <2>1, <2>2, <1>1 DEF Remembered, ObservedInItsRun
  <2> QED BY <1>1, <1>2, <2>3, <2>4 DEF Remembered
<1> QED BY <1>3, <1>4

LEMMA MoveRemembered == ASSUME Remembered, Move PROVE Remembered'
<1>1. PICK i \in Names, v \in Versions :
        /\ world' = [world EXCEPT ![i] = v]
        /\ since' = IF pc = "idle" THEN since ELSE [since EXCEPT ![i] = @ \cup {v}]
      BY DEF Move
<1>2. UNCHANGED <<pc, obs, todo>> BY DEF Move, memory
<1>3. \A j \in Names : /\ world'[j] = IF j = i THEN v ELSE world[j]
                       /\ since[j] \subseteq since'[j]
                       /\ since'[j] \in SUBSET Versions
                       /\ pc # "idle" => (j = i => v \in since'[j])
      BY <1>1 DEF Remembered
<1>4. world' \in [Names -> Versions] /\ since' \in [Names -> SUBSET Versions]
      BY <1>1 DEF Remembered
<1>5. ObservedInItsRun' BY <1>2, <1>3 DEF Remembered, ObservedInItsRun
<1>6. pc' # "idle" => \A j \in Names : world'[j] \in since'[j]
      BY <1>2, <1>3 DEF Remembered
<1> QED BY <1>2, <1>4, <1>5, <1>6 DEF Remembered, Nothing

LEMMA StepRemembered == ASSUME Remembered, [Next]_vars PROVE Remembered'
<1>1. CASE Start
  <2>1. /\ pc = "idle" /\ world' = world /\ obs' = obs /\ todo' = Items
        /\ since' = [i \in Names |-> {world[i]}]
        BY <1>1 DEF Start
  <2>2. obs = Nothing /\ DOMAIN obs = {} BY <2>1 DEF Remembered, Nothing
  <2>3. since' \in [Names -> SUBSET Versions] /\ \A i \in Names : world'[i] \in since'[i]
        BY <2>1 DEF Remembered
  <2>4. todo' \in Seq(Names) BY <2>1, ExtlogAssumption DEF Names
  <2> QED BY <2>1, <2>2, <2>3, <2>4 DEF Remembered, ObservedInItsRun, Nothing
<1>2. CASE Fetch
  <2>1. pc = "fetch" /\ todo # << >> /\ Head(todo) \in Names /\ Fetched /\ Got(world[Head(todo)])
        BY <1>2 DEF Fetch, Fetching
  <2>2. world[Head(todo)] \in since[Head(todo)] BY <2>1 DEF Remembered
  <2> QED BY <2>1, <2>2, GotRemembered
<1>3. CASE FetchCut
  <2>1. pc = "fetch" /\ todo # << >> /\ Head(todo) \in Lengthless /\ Fetched /\ Got(Cut)
        BY <1>3 DEF FetchCut, Fetching
  <2> QED BY <2>1, GotRemembered
<1>4. CASE HeadFails
  <2>1. pc = "fetch" /\ todo # << >> /\ Head(todo) \in Names /\ Fetched /\ obs' = obs
        BY <1>4 DEF HeadFails, Fetching
  <2>2. world[Head(todo)] \in since[Head(todo)] BY <2>1 DEF Remembered
  <2> QED BY <2>1, <2>2, GotRemembered
<1>5. CASE Compare BY <1>5 DEF Compare, Remembered, ObservedInItsRun
<1>6. CASE Submit BY <1>6 DEF Submit, memory, Remembered, ObservedInItsRun
<1>7. CASE Save BY <1>7, EndRemembered DEF Save
<1>8. CASE FetchRaises BY <1>8, EndRemembered DEF FetchRaises
<1>9. CASE SubmitFails BY <1>9, EndRemembered DEF SubmitFails
<1>10. CASE Killed BY <1>10, EndRemembered DEF Killed
<1>11. CASE Move BY <1>11, MoveRemembered
<1>12. CASE UNCHANGED vars BY <1>12 DEF vars, memory, Remembered, ObservedInItsRun, Nothing
<1> QED BY <1>1, <1>2, <1>3, <1>4, <1>5, <1>6, <1>7, <1>8, <1>9, <1>10, <1>11, <1>12
        DEF Next, Run

\* Nothing an observation holds, and so nothing a leaf says, is older than its run,
\* dry runs included; except that a body cut short whose length was not declared
\* passes for the artifact (extlog_watch.py:52-68), of which nothing is claimed.
THEOREM LeavesAreOfTheirRun == Spec => []ObservedInItsRun
<1>1. Remembered => ObservedInItsRun BY DEF Remembered
<1> QED BY InitRemembered, StepRemembered, <1>1, PTL DEF Spec

-----------------------------------------------------------------------------

\* What is still to fetch has not been fetched, since no item is listed twice.
TypeInv == /\ TypeOK
           /\ todo \in Seq(Names) /\ IsInjective(todo)
           /\ pc = "idle" => obs = Nothing

LEMMA TailIsDistinct ==
  ASSUME NEW S, NEW s \in Seq(S), s # << >>, IsInjective(s)
  PROVE  /\ Tail(s) \in Seq(S) /\ IsInjective(Tail(s)) /\ Head(s) \in S
         /\ ToSet(s) = ToSet(Tail(s)) \cup {Head(s)} /\ Head(s) \notin ToSet(Tail(s))
<1> DEFINE t == Tail(s)
<1>1. Len(s) \in Nat /\ Len(s) # 0 /\ DOMAIN s = 1..Len(s) /\ Head(s) = s[1] OBVIOUS
<1>2. t \in Seq(S) /\ DOMAIN t = 1..(Len(s) - 1) OBVIOUS
<1>3. \A i \in DOMAIN t : t[i] = s[i + 1] /\ i + 1 \in DOMAIN s /\ i + 1 # 1
      BY <1>1, <1>2
<1>4. \A i \in DOMAIN s : i = 1 \/ (i - 1 \in DOMAIN t /\ t[i - 1] = s[i]) BY <1>1, <1>2
<1>5. 1 \in DOMAIN s BY <1>1
<1> HIDE DEF t
<1>6. \A i, j \in DOMAIN t : i + 1 = j + 1 => i = j BY <1>1, <1>2
<1>7. IsInjective(t) BY <1>3, <1>6 DEF IsInjective
<1>8. Head(s) \notin ToSet(t) BY <1>1, <1>3, <1>5 DEF IsInjective, ToSet
<1>9. ToSet(s) = ToSet(t) \cup {Head(s)}
  <2>1. \A x \in ToSet(s) : x \in ToSet(t) \cup {Head(s)} BY <1>1, <1>4 DEF ToSet
  <2>2. \A x \in ToSet(t) : x \in ToSet(s) BY <1>3 DEF ToSet
  <2>3. Head(s) \in ToSet(s) BY <1>1, <1>5 DEF ToSet
  <2> QED BY <2>1, <2>2, <2>3
<1>10. Head(s) \in S BY <1>1, <1>5
<1> QED BY <1>2, <1>7, <1>8, <1>9, <1>10 DEF t

LEMMA SeenAre ==
  /\ \A S \in SUBSET Names : \A f \in [S -> Versions \cup {Cut}] : f \in Seen
  /\ \A f \in Seen : DOMAIN f \in SUBSET Names /\ f \in [DOMAIN f -> Versions \cup {Cut}]
BY DEF Seen

LEMMA NothingIsSeen == Nothing \in Seen /\ DOMAIN Nothing = {}
<1>1. Nothing \in [{} -> Versions \cup {Cut}] BY DEF Nothing
<1> QED BY <1>1, SeenAre DEF Nothing

LEMMA NoneToDo == << >> \in Seq(Names) /\ IsInjective(<< >>) /\ ToSet(<< >>) = {}
BY DEF IsInjective, ToSet

LEMMA InitTypes == Init => TypeInv
<1> SUFFICES ASSUME Init PROVE TypeInv OBVIOUS
<1>1. world \in [Names -> Versions] /\ since \in [Names -> SUBSET Versions] BY DEF Init
<1>2. /\ state \in Seen /\ prev \in Seen /\ obs \in Seen /\ log = {} /\ pc = "idle"
      /\ changed = {} /\ todo \in Seq(Names) /\ IsInjective(todo) /\ obs = Nothing
      BY NothingIsSeen, NoneToDo DEF Init
<1> QED BY <1>1, <1>2 DEF TypeInv, TypeOK

\* The leaves of the log when one like that of the run is added.
LogTyped(l) == \A leaf \in l : leaf.set \in Seen /\ leaf.changed \subseteq DOMAIN leaf.set

LEMMA LogGrows ==
  ASSUME TypeInv, log' \in {log, log \cup {Leaf}} PROVE LogTyped(log')
<1>1. Leaf.set = obs /\ Leaf.changed = changed BY DEF Leaf
<1>2. obs \in Seen /\ changed \subseteq DOMAIN obs /\ LogTyped(log)
      BY DEF TypeInv, TypeOK, LogTyped
<1> QED BY <1>1, <1>2 DEF LogTyped

LEMMA EndTypes ==
  ASSUME TypeInv, End, world' = world, state' \in Seen, log' \in {log, log \cup {Leaf}}
  PROVE  TypeInv'
<1>1. /\ pc' = "idle" /\ prev' = Nothing /\ obs' = Nothing /\ todo' = << >> /\ changed' = {}
      /\ since' = [i \in Names |-> {}]
      BY DEF End
<1>2. LogTyped(log') BY LogGrows
<1>3. since' \in [Names -> SUBSET Versions] /\ world' \in [Names -> Versions]
      BY <1>1 DEF TypeInv, TypeOK
<1>4. todo' \in Seq(Names) /\ IsInjective(todo)' /\ prev' \in Seen /\ obs' \in Seen
      /\ changed' \subseteq DOMAIN obs'
      BY <1>1, NoneToDo, NothingIsSeen
<1>5. obs' = Nothing' BY <1>1 DEF Nothing
<1> QED BY <1>1, <1>2, <1>3, <1>4, <1>5 DEF TypeInv, TypeOK, LogTyped

LEMMA GotTypes ==
  ASSUME TypeInv, pc = "fetch", todo # << >>, Fetched,
         \/ \E v \in Versions \cup {Cut} : Got(v)
         \/ UNCHANGED obs /\ Head(todo) \notin Artifacts
  PROVE  TypeInv'
<1> DEFINE h == Head(todo)
<1>1. UNCHANGED <<world, log, state, pc, prev, changed, since>> /\ todo' = Tail(todo)
      BY DEF Fetched
<1>2. /\ todo' \in Seq(Names) /\ IsInjective(todo') /\ h \in Names
      /\ ToSet(todo) = ToSet(todo') \cup {h} /\ h \notin ToSet(todo')
      BY <1>1, TailIsDistinct DEF TypeInv
<1>3. /\ obs \in Seen /\ DOMAIN obs \subseteq Names /\ changed \subseteq DOMAIN obs
      /\ DOMAIN obs \cap ToSet(todo) = {} /\ Artifacts \subseteq DOMAIN obs \cup ToSet(todo)
      BY SeenAre DEF TypeInv, TypeOK
<1> HIDE DEF h
<1>4. /\ obs' \in Seen /\ DOMAIN obs \subseteq DOMAIN obs'
      /\ DOMAIN obs' \subseteq DOMAIN obs \cup {h} /\ (h \in Artifacts => h \in DOMAIN obs')
  <2>1. CASE UNCHANGED obs /\ Head(todo) \notin Artifacts BY <1>3, <2>1 DEF h
  <2>2. ASSUME NEW v \in Versions \cup {Cut}, Got(v)
        PROVE  /\ obs' \in Seen /\ DOMAIN obs' = DOMAIN obs \cup {h}
    <3>1. obs' = [i \in DOMAIN obs \cup {h} |-> IF i = h THEN v ELSE obs[i]]
          BY <2>2 DEF Got, h
    <3>2. obs \in [DOMAIN obs -> Versions \cup {Cut}] BY <1>3, SeenAre
    <3>3. obs' \in [DOMAIN obs \cup {h} -> Versions \cup {Cut}] BY <3>1, <3>2
    <3>4. DOMAIN obs \cup {h} \in SUBSET Names BY <1>2, <1>3
    <3> QED BY <3>1, <3>3, <3>4, SeenAre
  <2> QED BY <2>1, <2>2
<1>5. DOMAIN obs' \cap ToSet(todo') = {}
  <2> SUFFICES ASSUME NEW x \in DOMAIN obs', x \in ToSet(todo') PROVE FALSE OBVIOUS
  <2>1. x \in DOMAIN obs \/ x = h BY <1>4
  <2> QED BY <1>2, <1>3, <2>1
<1>6. Artifacts \subseteq DOMAIN obs' \cup ToSet(todo')
  <2> SUFFICES ASSUME NEW x \in Artifacts PROVE x \in DOMAIN obs' \cup ToSet(todo') OBVIOUS
  <2>1. x \in DOMAIN obs \/ x \in ToSet(todo') \/ x = h BY <1>2, <1>3
  <2> QED BY <1>4, <2>1
<1>7. changed' \subseteq DOMAIN obs' BY <1>1, <1>3, <1>4
<1>8. ToSet(todo)' = ToSet(todo') BY DEF ToSet
<1>9. IsInjective(todo)' BY <1>2 DEF IsInjective
<1> QED BY <1>1, <1>2, <1>4, <1>5, <1>6, <1>7, <1>8, <1>9 DEF TypeInv, TypeOK

LEMMA MoveTypes == ASSUME TypeInv, Move PROVE TypeInv'
<1>1. PICK i \in Names, v \in Versions :
        /\ world' = [world EXCEPT ![i] = v]
        /\ since' = IF pc = "idle" THEN since ELSE [since EXCEPT ![i] = @ \cup {v}]
      BY DEF Move
<1>2. UNCHANGED <<pc, log, state, dry, prev, todo, obs, changed>> BY DEF Move, memory
<1>3. world \in [Names -> Versions] /\ since \in [Names -> SUBSET Versions]
      BY DEF TypeInv, TypeOK
<1>4. world' \in [Names -> Versions] BY <1>1, <1>3
<1>5. since' \in [Names -> SUBSET Versions] BY <1>1, <1>3
<1> QED BY <1>2, <1>4, <1>5 DEF TypeInv, TypeOK, IsInjective, ToSet, Nothing

LEMMA StartTypes == ASSUME TypeInv, Start PROVE TypeInv'
<1>1. /\ pc = "idle" /\ pc' = "fetch" /\ prev' = state /\ todo' = Items
      /\ since' = [i \in Names |-> {world[i]}]
      /\ UNCHANGED <<world, log, state, obs, changed>>
      BY DEF Start
<1>2. /\ obs = Nothing /\ DOMAIN obs = {} /\ world \in [Names -> Versions]
      BY <1>1, NothingIsSeen DEF TypeInv, TypeOK
<1>3. since' \in [Names -> SUBSET Versions] BY <1>1, <1>2
<1>4. todo' \in Seq(Names) /\ IsInjective(todo)' /\ ToSet(todo)' = Names /\ Artifacts \subseteq Names
      BY <1>1, ExtlogAssumption DEF Names, IsInjective, ToSet
<1>5. DOMAIN obs' \cap ToSet(todo)' = {} /\ Artifacts \subseteq DOMAIN obs' \cup ToSet(todo)'
      BY <1>1, <1>2, <1>4
<1> QED BY <1>1, <1>2, <1>3, <1>4, <1>5 DEF TypeInv, TypeOK

LEMMA CompareTypes == ASSUME TypeInv, Compare PROVE TypeInv'
<1>1. /\ pc = "fetch" /\ pc' \in {"submit", "save"}
      /\ changed' \subseteq DOMAIN obs
      /\ UNCHANGED <<world, log, state, prev, todo, obs, since>>
      BY DEF Compare
<1> QED BY <1>1 DEF TypeInv, TypeOK, IsInjective, ToSet, Nothing

LEMMA SubmitTypes == ASSUME TypeInv, Submit PROVE TypeInv'
<1>1. /\ pc = "submit" /\ pc' = "save" /\ log' \in {log, log \cup {Leaf}}
      /\ UNCHANGED <<world, state, dry, prev, todo, obs, changed, since>>
      BY DEF Submit, memory
<1>2. LogTyped(log') BY <1>1, LogGrows
<1> QED BY <1>1, <1>2 DEF TypeInv, TypeOK, IsInjective, ToSet, Nothing, LogTyped

LEMMA StepTypes == ASSUME TypeInv, [Next]_vars PROVE TypeInv'
<1>0. world \in [Names -> Versions] /\ state \in Seen /\ obs \in Seen BY DEF TypeInv, TypeOK
<1>1. CASE Start BY <1>1, StartTypes
<1>2. CASE Fetch
  <2>1. pc = "fetch" /\ todo # << >> /\ Head(todo) \in Names /\ Fetched /\ Got(world[Head(todo)])
        BY <1>2 DEF Fetch, Fetching
  <2>2. world[Head(todo)] \in Versions BY <1>0, <2>1
  <2> QED BY <2>1, <2>2, GotTypes
<1>3. CASE FetchCut BY <1>3, GotTypes DEF FetchCut, Fetching
<1>4. CASE HeadFails BY <1>4, GotTypes DEF HeadFails, Fetching
<1>5. CASE Compare BY <1>5, CompareTypes
<1>6. CASE Submit BY <1>6, SubmitTypes
<1>7. CASE Save BY <1>0, <1>7, EndTypes DEF Save
<1>8. CASE FetchRaises BY <1>0, <1>8, EndTypes DEF FetchRaises
<1>9. CASE SubmitFails BY <1>0, <1>9, EndTypes DEF SubmitFails
<1>10. CASE Killed BY <1>0, <1>10, EndTypes DEF Killed
<1>11. CASE Move BY <1>11, MoveTypes
<1>12. CASE UNCHANGED vars
       BY <1>12 DEF vars, memory, TypeInv, TypeOK, IsInjective, ToSet, Nothing
<1> QED BY <1>1, <1>2, <1>3, <1>4, <1>5, <1>6, <1>7, <1>8, <1>9, <1>10, <1>11, <1>12
        DEF Next, Run

\* extlog_watch.py:82-134, for any failures and kills, dry runs included: no item of
\* logs.json is observed twice in a run, no artifact is missing from what a run
\* submits, and nothing is reported as changed that the leaf does not hold.
THEOREM TypeCorrect == Spec => []TypeOK
<1>1. TypeInv => TypeOK BY DEF TypeInv
<1> QED BY InitTypes, StepTypes, <1>1, PTL DEF Spec

-----------------------------------------------------------------------------

Moved == {i \in DOMAIN prev \cap DOMAIN obs : prev[i] # obs[i]}

\* During a run, what it compares with is the state file, what it will say is
\* what differs, and once it has been said the log has it.
Inv == /\ pc # "idle" => prev = state /\ ~dry
       /\ pc \in {"submit", "save"} => changed = Moved
       /\ pc = "save" => Leaf \in log

LEMMA InitPromise == Init => Inv /\ Promise!Init
<1> SUFFICES ASSUME Init PROVE Inv /\ Promise!Init OBVIOUS
<1>1. log = {} /\ state = Nothing /\ pc = "idle" BY DEF Init
<1>2. OnRecord = {} BY <1>1 DEF OnRecord
<1> QED BY <1>1, <1>2 DEF Inv, Promise!Init, Nothing

\* The end of a run undoes nothing the invariant needs.
LEMMA EndInv == ASSUME End PROVE Inv'
BY DEF End, Inv

LEMMA FetchedInv == ASSUME Inv, pc = "fetch", Fetched PROVE Inv'
BY DEF Fetched, Inv

LEMMA CompareInv == ASSUME Inv, Compare PROVE Inv'
<1>1. /\ pc = "fetch" /\ pc' = "submit"
      /\ changed' = {i \in DOMAIN obs : Differs(prev, i)}
      /\ prev' = prev /\ obs' = obs /\ state' = state /\ dry' = dry
      BY DEF Compare, Inv
<1>2. changed' = Moved' BY <1>1 DEF Moved, Differs
<1> QED BY <1>1, <1>2 DEF Inv

LEMMA StepInv == ASSUME MayDryRun = FALSE, Inv, [Next]_vars PROVE Inv'
<1>1. CASE Start BY <1>1 DEF Start, Inv
<1>2. CASE Fetch BY <1>2, FetchedInv DEF Fetch, Fetching
<1>3. CASE Compare BY <1>3, CompareInv
<1>4. CASE Submit
  <2>1. /\ pc = "submit" /\ pc' = "save" /\ log' = log \cup {Leaf}
        /\ UNCHANGED <<state, dry, prev, obs, changed>>
        BY <1>4 DEF Submit, memory
  <2> QED BY <2>1 DEF Inv, Leaf, Moved
<1>5. CASE Save BY <1>5, EndInv DEF Save
<1>6. CASE Move BY <1>6 DEF Move, memory, Inv, Leaf, Moved
<1>7. CASE FetchCut BY <1>7, FetchedInv DEF FetchCut, Fetching
<1>8. CASE HeadFails BY <1>8, FetchedInv DEF HeadFails, Fetching
<1>9. CASE FetchRaises BY <1>9, EndInv DEF FetchRaises
<1>10. CASE SubmitFails BY <1>10, EndInv DEF SubmitFails
<1>11. CASE Killed BY <1>11, EndInv DEF Killed
<1>12. CASE UNCHANGED vars BY <1>12 DEF vars, memory, Inv, Leaf, Moved
<1> QED BY <1>1, <1>2, <1>3, <1>4, <1>5, <1>6, <1>7, <1>8, <1>9, <1>10, <1>11, <1>12
        DEF Next, Run

\* What the log holds of a leaf.
Recorded(leaf) == [set |-> leaf.set, changed |-> [i \in leaf.changed |-> i]]

\* The leaf of a run names exactly what has moved from the state file.
LEMMA LeafIsTruthful ==
  ASSUME TypeOK, Inv, pc \in {"submit", "save"}
  PROVE  Promise!Truthful(Recorded(Leaf)) /\ Recorded(Leaf).set = obs
<1>1. Leaf.changed = Promise!Moved(state, obs) /\ Leaf.set = obs
      BY DEF Inv, Leaf, Moved, Promise!Moved
<1> DEFINE M == Promise!Moved(state, obs)
<1>2. M \subseteq Names
  <2>1. DOMAIN obs \subseteq Names BY SeenAre DEF TypeOK
  <2> QED BY <2>1 DEF Promise!Moved
<1> DEFINE thing == [i \in M |-> i]
<1>3. Recorded(Leaf).changed = thing /\ Recorded(Leaf).set = obs BY <1>1 DEF Recorded
<1> HIDE DEF M
<1>4. DOMAIN thing = M /\ \A i \in M : thing[i] = i OBVIOUS
<1>5. thing \in Promise!Bijection(M, M)
  <2>1. thing \in [M -> M] OBVIOUS
  <2>2. thing \in Promise!Injection(M, M)
        BY <2>1, <1>4 DEF Promise!Injection, Promise!IsInjective
  <2>3. thing \in Promise!Surjection(M, M) BY <2>1, <1>4 DEF Promise!Surjection
  <2> QED BY <2>2, <2>3 DEF Promise!Bijection
<1>6. \A i \in M : thing[i] \in ItsName[thing[i]] BY <1>2, <1>4 DEF ItsName
<1> HIDE DEF thing
<1> QED BY <1>3, <1>4, <1>5, <1>6 DEF Promise!Truthful, M

\* An append is a Record, whether its answer comes back or not.
LEMMA AppendRecords ==
  ASSUME TypeOK, Inv, pc = "submit", log' = log \cup {Leaf}, state' = state
  PROVE  Promise!Record
<1>1. Promise!Truthful(Recorded(Leaf)) BY LeafIsTruthful
<1>2. OnRecord' = OnRecord \cup {Recorded(Leaf)} BY DEF OnRecord, Recorded
<1>3. Recorded(Leaf) \in OnRecord' BY <1>2
<1> QED BY <1>1, <1>2, <1>3 DEF Promise!Record

LEMMA StepPromise ==
  ASSUME TypeOK, Inv, [Next]_vars PROVE [Promise!Next]_<<OnRecord, state>>
<1>0. log' = log => OnRecord' = OnRecord BY DEF OnRecord
<1>1. CASE Submit
  <2>1. Promise!Record BY <1>1, AppendRecords DEF Submit
  <2> QED BY <2>1 DEF Promise!Next
<1>2. CASE SubmitFails
  <2>1. pc = "submit" /\ state' = state /\ log' \in {log, log \cup {Leaf}} BY <1>2 DEF SubmitFails
  <2>2. CASE log' = log BY <2>1, <2>2, <1>0
  <2>3. CASE log' = log \cup {Leaf}
    <3>1. Promise!Record BY <2>1, <2>3, AppendRecords
    <3> QED BY <3>1 DEF Promise!Next
  <2> QED BY <2>1, <2>2, <2>3
<1>3. CASE Save
  <2>1. pc = "save" /\ state' = obs /\ log' = log /\ Leaf \in log BY <1>3 DEF Save, Inv
  <2>2. Promise!Truthful(Recorded(Leaf)) /\ Recorded(Leaf).set = obs BY <2>1, LeafIsTruthful
  <2>3. Recorded(Leaf) \in OnRecord BY <2>1 DEF OnRecord, Recorded
  <2>4. Promise!Adopt BY <1>0, <2>1, <2>2, <2>3 DEF Promise!Adopt
  <2> QED BY <2>4 DEF Promise!Next
<1>4. ASSUME ~Submit, ~SubmitFails, ~Save PROVE UNCHANGED <<OnRecord, state>>
  <2>1. UNCHANGED <<log, state>>
        BY <1>4 DEF Next, Run, vars, Start, Fetch, Compare, Move, FetchCut, HeadFails,
                    Fetched, FetchRaises, Killed
  <2> QED BY <2>1, <1>0
<1> QED BY <1>1, <1>2, <1>3, <1>4

\* Whatever publishers, requests and appends do, and wherever a run is killed, the
\* state file moves only to an observation that is in the log with the name of each
\* item that has moved since the file was written, and with no other: ExtlogWatch
\* implements Observations.
THEOREM ImplementsObservations ==
  ASSUME MayDryRun = FALSE PROVE Spec => RecordedBeforeAdopted
<1>1. Inv /\ [Next]_vars => Inv' BY StepInv
<1>2. TypeOK /\ Inv /\ [Next]_vars => [Promise!Next]_<<OnRecord, state>> BY StepPromise
<1> QED BY InitPromise, <1>1, <1>2, TypeCorrect, PTL
        DEF Spec, RecordedBeforeAdopted, Promise!Spec

\* What any implementation of Observations keeps: the baseline is on the record.
LEMMA PromiseKeepsRecord == Promise!Spec => []Promise!BaselineIsOnRecord
<1>1. Promise!Init => Promise!BaselineIsOnRecord
      BY DEF Promise!Init, Promise!BaselineIsOnRecord
<1>2. Promise!BaselineIsOnRecord /\ [Promise!Next]_<<OnRecord, state>>
        => Promise!BaselineIsOnRecord'
      BY DEF Promise!Next, Promise!Record, Promise!Adopt, Promise!BaselineIsOnRecord
<1> QED BY <1>1, <1>2, PTL DEF Promise!Spec

\* What the next run will compare with is in the log, item by item.
THEOREM StateIsAlwaysLogged ==
  ASSUME MayDryRun = FALSE PROVE Spec => []Promise!BaselineIsOnRecord
BY ImplementsObservations, PromiseKeepsRecord, PTL DEF RecordedBeforeAdopted
=============================================================================
