---------------------------- MODULE HFWatchProofs ----------------------------
(***************************************************************************)
(* For any set of models, any number of runs and however the Hub, the      *)
(* submissions and the process fail: the watcher's state file never gets   *)
(* ahead of the log; a run takes every model once; HFWatch implements      *)
(* Observations; the fingerprints in the log are each of one commit; and a *)
(* run has one digest, its detail leaves one for one with what it names.   *)
(* Dry runs are left out where the state file is held to the log, because  *)
(* they save it without having appended anything.                          *)
(***************************************************************************)
EXTENDS HFWatch, TLAPS

-----------------------------------------------------------------------------
(* The state file and the log.                                             *)

IsSequence(s) == \E S : s \in Seq(S)

Covered(s) == \E i \in Digests : log[i].set = s

\* The leaf by which a run says that m is no longer what the state file has it as.
Says(leaf, m) == /\ leaf.kind = "detail" /\ leaf.model = m
                 /\ leaf.was = prev[m] /\ leaf.fp = observed[m]

Moved == {m \in DOMAIN observed \cap DOMAIN prev : observed[m] # prev[m]}

SaidIn(s, m) == \E i \in DOMAIN s : Says(s[i], m)

\* Between two runs the process holds nothing; during a run, what it compares
\* with is the state file.
Idle    == pc = "idle" => observed = Nothing /\ changed = << >>
Running == pc # "idle" => prev = state /\ ~dry

\* Where the digest of the run and the leaves of what moved are at each point.
DigestOnItsWay ==
  /\ pc = "submit" =>
       \/ Covered(observed)
       \/ queue # << >> /\ queue[1].kind = "digest" /\ queue[1].set = observed
  /\ pc = "save" => Covered(observed)

LeavesOnTheirWay ==
  \A m \in Moved :
    /\ pc \in {"meta", "card"} => SaidIn(changed, m)
    /\ pc = "submit" => SaidIn(queue, m) \/ SaidIn(log, m)
    /\ pc = "save" => SaidIn(log, m)

Inv == /\ IsSequence(log) /\ IsSequence(changed) /\ IsSequence(queue)
       /\ Idle /\ Running
       /\ StateIsLogged
       /\ DigestOnItsWay
       /\ LeavesOnTheirWay

-----------------------------------------------------------------------------

LEMMA AppendToSequence ==
  ASSUME NEW s, IsSequence(s), NEW x
  PROVE  /\ IsSequence(Append(s, x))
         /\ DOMAIN s \subseteq DOMAIN Append(s, x)
         /\ \A i \in DOMAIN s : Append(s, x)[i] = s[i]
         /\ Len(s) + 1 \in DOMAIN Append(s, x) /\ Append(s, x)[Len(s) + 1] = x
<1>1. PICK S : s \in Seq(S) BY DEF IsSequence
<1>2. s \in Seq(S \cup {x}) /\ x \in S \cup {x} BY <1>1
<1>3. Append(s, x) \in Seq(S \cup {x}) BY <1>2
<1>4. DOMAIN s = 1..Len(s) /\ DOMAIN Append(s, x) = 1..(Len(s) + 1) /\ Len(s) \in Nat
      BY <1>2, <1>3
<1>5. \A i \in 1..Len(s) : Append(s, x)[i] = s[i] BY <1>2
<1>6. Append(s, x)[Len(s) + 1] = x BY <1>2
<1> QED BY <1>3, <1>4, <1>5, <1>6 DEF IsSequence

LEMMA TailOfSequence ==
  ASSUME NEW s, IsSequence(s), s # << >>
  PROVE  /\ IsSequence(Tail(s))
         /\ 1 \in DOMAIN s /\ Head(s) = s[1]
         /\ \A i \in DOMAIN s : i = 1 \/ (i - 1 \in DOMAIN Tail(s) /\ Tail(s)[i - 1] = s[i])
<1>1. PICK S : s \in Seq(S) BY DEF IsSequence
<1>2. Len(s) \in Nat /\ Len(s) # 0 /\ DOMAIN s = 1..Len(s) BY <1>1
<1>3. Tail(s) \in Seq(S) /\ DOMAIN Tail(s) = 1..(Len(s) - 1) BY <1>1, <1>2
<1>4. \A j \in 1..(Len(s) - 1) : Tail(s)[j] = s[j + 1] BY <1>1, <1>2
<1>5. ASSUME NEW i \in DOMAIN s, i # 1
      PROVE  i - 1 \in DOMAIN Tail(s) /\ Tail(s)[i - 1] = s[i]
  <2>1. i \in Nat /\ i - 1 \in 1..(Len(s) - 1) BY <1>2, <1>5
  <2>2. Tail(s)[i - 1] = s[(i - 1) + 1] BY <2>1, <1>4
  <2> QED BY <2>1, <2>2, <1>3
<1>6. Head(s) = s[1] BY <1>1, <1>2
<1> QED BY <1>2, <1>3, <1>5, <1>6 DEF IsSequence

LEMMA PrefixedSequence ==
  ASSUME NEW s, IsSequence(s), NEW x
  PROVE  /\ IsSequence(<<x>> \o s) /\ <<x>> \o s # << >>
         /\ (<<x>> \o s)[1] = x
         /\ \A i \in DOMAIN s : i + 1 \in DOMAIN (<<x>> \o s) /\ (<<x>> \o s)[i + 1] = s[i]
<1>1. PICK S : s \in Seq(S) BY DEF IsSequence
<1>2. s \in Seq(S \cup {x}) /\ <<x>> \in Seq(S \cup {x}) BY <1>1
<1>3. DOMAIN s = 1..Len(s) /\ Len(s) \in Nat BY <1>2
<1>4. <<x>> \o s \in Seq(S \cup {x}) /\ Len(<<x>> \o s) = Len(s) + 1 BY <1>2
<1>5. (<<x>> \o s)[1] = x BY <1>2
<1>6. \A i \in 1..Len(s) : (<<x>> \o s)[i + 1] = s[i] BY <1>2, <1>3
<1>7. DOMAIN (<<x>> \o s) = 1..(Len(s) + 1) BY <1>4
<1> QED BY <1>3, <1>4, <1>5, <1>6, <1>7 DEF IsSequence

LEMMA AppendAddsOne ==
  ASSUME NEW s, IsSequence(s), NEW x
  PROVE  \A i \in DOMAIN Append(s, x) :
           \/ i \in DOMAIN s /\ Append(s, x)[i] = s[i]
           \/ Append(s, x)[i] = x
<1>1. PICK S : s \in Seq(S) BY DEF IsSequence
<1>2. s \in Seq(S \cup {x}) /\ x \in S \cup {x} BY <1>1
<1>3. DOMAIN s = 1..Len(s) /\ DOMAIN Append(s, x) = 1..(Len(s) + 1) /\ Len(s) \in Nat
      BY <1>2
<1>4. \A i \in 1..Len(s) : Append(s, x)[i] = s[i] BY <1>2
<1>5. Append(s, x)[Len(s) + 1] = x BY <1>2
<1> QED BY <1>3, <1>4, <1>5

LEMMA TailIsOfSequence ==
  ASSUME NEW s, IsSequence(s), s # << >>
  PROVE  \A i \in DOMAIN Tail(s) : i + 1 \in DOMAIN s /\ i + 1 # 1 /\ Tail(s)[i] = s[i + 1]
<1>1. PICK S : s \in Seq(S) BY DEF IsSequence
<1>2. Len(s) \in Nat /\ Len(s) # 0 /\ DOMAIN s = 1..Len(s) BY <1>1
<1>3. Tail(s) \in Seq(S) /\ DOMAIN Tail(s) = 1..(Len(s) - 1) BY <1>1, <1>2
<1>4. \A j \in 1..(Len(s) - 1) : Tail(s)[j] = s[j + 1] BY <1>1, <1>2
<1>5. \A j \in 1..(Len(s) - 1) : j + 1 \in 1..Len(s) /\ j + 1 # 1 BY <1>2
<1> QED BY <1>2, <1>3, <1>4, <1>5

LEMMA PrefixedIsOfSequence ==
  ASSUME NEW s, IsSequence(s), NEW x
  PROVE  \A i \in DOMAIN (<<x>> \o s) :
           \/ (<<x>> \o s)[i] = x
           \/ \E j \in DOMAIN s : (<<x>> \o s)[i] = s[j]
<1>1. PICK S : s \in Seq(S) BY DEF IsSequence
<1>2. s \in Seq(S \cup {x}) /\ <<x>> \in Seq(S \cup {x}) BY <1>1
<1>3. DOMAIN s = 1..Len(s) /\ Len(s) \in Nat BY <1>2
<1>4. <<x>> \o s \in Seq(S \cup {x}) /\ Len(<<x>> \o s) = Len(s) + 1 BY <1>2
<1>5. DOMAIN (<<x>> \o s) = 1..(Len(s) + 1) BY <1>4
<1>6. (<<x>> \o s)[1] = x BY <1>2
<1>7. \A i \in 1..Len(s) : (<<x>> \o s)[i + 1] = s[i] BY <1>2, <1>3
<1>8. ASSUME NEW i \in 1..(Len(s) + 1), i # 1 PROVE \E j \in DOMAIN s : (<<x>> \o s)[i] = s[j]
  <2>1. i - 1 \in 1..Len(s) /\ (i - 1) + 1 = i BY <1>3, <1>8
  <2>2. (<<x>> \o s)[(i - 1) + 1] = s[i - 1] BY <2>1, <1>7
  <2> QED BY <2>1, <2>2, <1>3
<1> QED BY <1>5, <1>6, <1>8

\* The places of a sequence that has grown by one.
LEMMA AppendPlaces ==
  ASSUME NEW s, IsSequence(s), NEW x
  PROVE  /\ DOMAIN Append(s, x) = DOMAIN s \cup {Len(s) + 1}
         /\ Append(s, x)[Len(s) + 1] = x
         /\ \A i \in DOMAIN s : i < Len(s) + 1 /\ Append(s, x)[i] = s[i]
<1>1. PICK S : s \in Seq(S) BY DEF IsSequence
<1>2. s \in Seq(S \cup {x}) /\ x \in S \cup {x} BY <1>1
<1>3. Len(s) \in Nat /\ DOMAIN s = 1..Len(s) BY <1>2
<1>4. DOMAIN Append(s, x) = 1..(Len(s) + 1) BY <1>2
<1>5. Append(s, x)[Len(s) + 1] = x /\ \A i \in 1..Len(s) : Append(s, x)[i] = s[i] BY <1>2
<1>6. 1..(Len(s) + 1) = (1..Len(s)) \cup {Len(s) + 1} BY <1>3
<1>7. \A i \in 1..Len(s) : i < Len(s) + 1 BY <1>3
<1> QED BY <1>3, <1>4, <1>5, <1>6, <1>7

-----------------------------------------------------------------------------

\* What an append to the log leaves true.
LEMMA LogGrows ==
  ASSUME IsSequence(log), NEW x, log' = Append(log, x)
  PROVE  /\ IsSequence(log)'
         /\ \A s : Covered(s) => (\E i \in Digests' : log'[i].set = s)
         /\ (prev' = prev /\ observed' = observed) =>
              \A m : SaidIn(log, m) => SaidIn(log, m)'
         /\ x.kind = "digest" => (\E i \in Digests' : log'[i].set = x.set)
         /\ (prev' = prev /\ observed' = observed) =>
              \A m : Says(x, m) => SaidIn(log, m)'
<1>1. /\ IsSequence(log')
      /\ DOMAIN log \subseteq DOMAIN log'
      /\ \A i \in DOMAIN log : log'[i] = log[i]
      /\ Len(log) + 1 \in DOMAIN log' /\ log'[Len(log) + 1] = x
      BY AppendToSequence
<1>2. \A s : Covered(s) => (\E i \in Digests' : log'[i].set = s)
      BY <1>1 DEF Covered, Digests
<1>3. ASSUME prev' = prev, observed' = observed, NEW m, SaidIn(log, m) PROVE SaidIn(log, m)'
      BY <1>1, <1>3 DEF SaidIn, Says
<1>4. x.kind = "digest" => (\E i \in Digests' : log'[i].set = x.set)
      BY <1>1 DEF Digests
<1>5. ASSUME prev' = prev, observed' = observed, NEW m, Says(x, m) PROVE SaidIn(log, m)'
      BY <1>1, <1>5 DEF SaidIn, Says
<1> QED BY <1>1, <1>2, <1>3, <1>4, <1>5 DEF IsSequence

LEMMA EmptySequence == IsSequence(<< >>)
BY << >> \in Seq({}) DEF IsSequence

LEMMA InitInv == Init => Inv
<1> SUFFICES ASSUME Init PROVE Inv OBVIOUS
<1>1. IsSequence(log) /\ IsSequence(changed) /\ IsSequence(queue)
      BY EmptySequence DEF Init
<1>2. Idle /\ Running /\ DigestOnItsWay /\ StateIsLogged
      BY DEF Init, Idle, Running, DigestOnItsWay, StateIsLogged
<1>3. LeavesOnTheirWay BY DEF Init, LeavesOnTheirWay
<1> QED BY <1>1, <1>2, <1>3 DEF Inv

\* A run that ends without saving leaves the next one nothing to account for.
LEMMA EndInv ==
  ASSUME Inv, NEW how, End(how), state' = state, IsSequence(log)',
         \A s : Covered(s) => Covered(s)'
  PROVE  Inv'
<1>1. IsSequence(changed)' /\ IsSequence(queue)' BY EmptySequence DEF End, EmptyMemory
<1>2. pc' = "idle" /\ observed' = Nothing /\ changed' = << >> BY DEF End, EmptyMemory, Nothing
<1>3. Idle' BY <1>2 DEF Idle, Nothing
<1>4. Running' /\ DigestOnItsWay' /\ LeavesOnTheirWay'
      BY <1>2 DEF Running, DigestOnItsWay, LeavesOnTheirWay
<1>5. StateIsLogged'
  <2>1. state' # Nothing => Covered(state) BY DEF Inv, StateIsLogged, Covered
  <2>2. state' # Nothing => Covered(state)' BY <2>1
  <2> QED BY <2>2 DEF StateIsLogged, Covered, Nothing
<1> QED BY <1>1, <1>3, <1>4, <1>5 DEF Inv

\* Nothing the invariant speaks of changes but pc, in a way it allows.
LEMMA QuietStep ==
  ASSUME Inv, UNCHANGED <<log, state, dry, prev, observed, changed, queue>>,
         \/ pc' = pc
         \/ pc \in {"meta", "card"} /\ pc' \in {"meta", "card"}
  PROVE  Inv'
<1>1. IsSequence(log)' /\ IsSequence(changed)' /\ IsSequence(queue)' BY DEF Inv, IsSequence
<1>2. Idle' /\ Running' BY DEF Inv, Idle, Running, Nothing
<1>3. StateIsLogged' BY DEF Inv, StateIsLogged, Digests, Nothing
<1>4. DigestOnItsWay' BY DEF Inv, DigestOnItsWay, Covered, Digests
<1>5. LeavesOnTheirWay' BY DEF Inv, LeavesOnTheirWay, Moved, SaidIn, Says
<1> QED BY <1>1, <1>2, <1>3, <1>4, <1>5 DEF Inv

LEMMA StartInv == ASSUME MayDryRun = FALSE, Inv, Start PROVE Inv'
<1>1. pc = "idle" /\ pc' = "meta" /\ prev' = state /\ state' = state /\ ~dry'
      BY DEF Start
<1>2. observed' = Nothing /\ changed' = << >> BY <1>1 DEF Start, Inv, Idle
<1>3. IsSequence(log)' /\ IsSequence(changed)' /\ IsSequence(queue)'
      BY DEF Inv, Start, IsSequence
<1>4. Idle' /\ Running' /\ DigestOnItsWay' BY <1>1 DEF Idle, Running, DigestOnItsWay
<1>5. StateIsLogged' BY DEF Start, Inv, StateIsLogged, Digests, Nothing
<1>6. Moved' = {} BY <1>2 DEF Moved, Nothing
<1>7. LeavesOnTheirWay' BY <1>6 DEF LeavesOnTheirWay
<1> QED BY <1>3, <1>4, <1>5, <1>7 DEF Inv

\* A model that has moved gets its leaf in the very step that observes it.
LEMMA ObserveInv ==
  ASSUME Inv, pc = "card", NEW card, Observe(card) PROVE Inv'
<1> DEFINE m  == Head(todo)
           fp == [sha |-> meta.sha, card |-> card, hidden |-> meta.hidden]
           leaf == DetailLeaf(run, m, meta.id, fp, prev[m])
<1>1. /\ observed' = [x \in DOMAIN observed \cup {m} |-> IF x = m THEN fp ELSE observed[x]]
      /\ changed' = IF m \in DOMAIN prev /\ prev[m] # fp THEN Append(changed, leaf) ELSE changed
      /\ pc' = "meta"
      /\ UNCHANGED <<log, state, dry, prev, queue>>
      BY DEF Observe
<1> HIDE DEF m, fp, leaf
<1>2. IsSequence(log)' /\ IsSequence(queue)' BY <1>1 DEF Inv, IsSequence
<1>3. IsSequence(changed) BY DEF Inv
<1>4. IsSequence(changed)'
  <2>1. IsSequence(changed') BY <1>1, <1>3, AppendToSequence
  <2> QED BY <2>1 DEF IsSequence
<1>5. Idle' /\ Running' /\ DigestOnItsWay'
      BY <1>1 DEF Inv, Idle, Running, DigestOnItsWay
<1>6. StateIsLogged' BY <1>1 DEF Inv, StateIsLogged, Digests, Nothing
<1>7. ASSUME NEW x \in Moved' PROVE SaidIn(changed, x)'
  <2>1. x \in DOMAIN observed' /\ x \in DOMAIN prev /\ observed'[x] # prev[x]
        BY <1>1, <1>7 DEF Moved
  <2>2. CASE x = m
    <3>1. observed'[x] = fp /\ prev[m] # fp /\ m \in DOMAIN prev BY <1>1, <2>1, <2>2
    <3>2. changed' = Append(changed, leaf) BY <1>1, <3>1
    <3>3. Len(changed) + 1 \in DOMAIN changed' /\ changed'[Len(changed) + 1] = leaf
          BY <1>3, <3>2, AppendToSequence
    <3>4. leaf.kind = "detail" /\ leaf.model = x /\ leaf.was = prev[x] /\ leaf.fp = observed'[x]
          BY <2>2, <3>1 DEF leaf, DetailLeaf
    <3>5. prev' = prev BY <1>1
    <3> QED BY <3>3, <3>4, <3>5 DEF SaidIn, Says
  <2>3. CASE x # m
    <3>1. x \in Moved /\ observed'[x] = observed[x] BY <1>1, <2>1, <2>3 DEF Moved
    <3>2. PICK i \in DOMAIN changed : Says(changed[i], x)
          BY <3>1 DEF Inv, LeavesOnTheirWay, SaidIn
    <3>3. i \in DOMAIN changed' /\ changed'[i] = changed[i]
          BY <1>1, <1>3, <3>2, AppendToSequence
    <3> QED BY <1>1, <3>1, <3>2, <3>3 DEF SaidIn, Says
  <2> QED BY <2>2, <2>3
<1>8. LeavesOnTheirWay' BY <1>1, <1>7 DEF LeavesOnTheirWay
<1> QED BY <1>2, <1>4, <1>5, <1>6, <1>8 DEF Inv

LEMMA QueueInv == ASSUME Inv, Queue PROVE Inv'
<1>1. /\ pc = "meta" /\ ~dry /\ pc' = "submit"
      /\ queue' = <<Digest>> \o changed
      /\ UNCHANGED <<log, state, dry, prev, observed, changed>>
      BY DEF Queue, Inv, Running
<1>2. IsSequence(changed) BY DEF Inv
<1>3. /\ IsSequence(queue')
      /\ queue' # << >> /\ queue'[1] = Digest
      /\ \A i \in DOMAIN changed : i + 1 \in DOMAIN queue' /\ queue'[i + 1] = changed[i]
      BY <1>1, <1>2, PrefixedSequence
<1>4. Digest.kind = "digest" /\ Digest.set = observed BY DEF Digest, DigestLeaf
<1>5. IsSequence(log)' /\ IsSequence(changed)' /\ IsSequence(queue)'
      BY <1>1, <1>3 DEF Inv, IsSequence
<1>6. Idle' /\ Running' BY <1>1 DEF Inv, Idle, Running
<1>7. StateIsLogged' BY <1>1 DEF Inv, StateIsLogged, Digests, Nothing
<1>8. DigestOnItsWay' BY <1>1, <1>3, <1>4 DEF DigestOnItsWay
<1>9. ASSUME NEW x \in Moved' PROVE SaidIn(queue, x)'
  <2>1. x \in Moved BY <1>1, <1>9 DEF Moved
  <2>2. PICK i \in DOMAIN changed : Says(changed[i], x)
        BY <1>1, <2>1 DEF Inv, LeavesOnTheirWay, SaidIn
  <2> QED BY <1>1, <1>3, <2>2 DEF SaidIn, Says
<1>10. LeavesOnTheirWay' BY <1>1, <1>9 DEF LeavesOnTheirWay
<1> QED BY <1>5, <1>6, <1>7, <1>8, <1>10 DEF Inv

\* The head of the queue goes from the queue to the log.
LEMMA SubmitInv == ASSUME Inv, Submit PROVE Inv'
<1>1. /\ pc = "submit" /\ pc' = "submit" /\ queue # << >>
      /\ log' = Append(log, Head(queue)) /\ queue' = Tail(queue)
      /\ UNCHANGED <<state, dry, prev, observed, changed>>
      BY DEF Submit
<1>2. IsSequence(log) /\ IsSequence(queue) BY DEF Inv
<1>3. /\ IsSequence(queue')
      /\ Head(queue) = queue[1]
      /\ \A i \in DOMAIN queue : i = 1 \/ (i - 1 \in DOMAIN queue' /\ queue'[i - 1] = queue[i])
      BY <1>1, <1>2, TailOfSequence
<1>4. log' = Append(log, queue[1]) BY <1>1, <1>3
<1>5. IsSequence(log)' /\ IsSequence(changed)' /\ IsSequence(queue)'
      BY <1>1, <1>2, <1>3, <1>4, LogGrows DEF Inv, IsSequence
<1>6. Idle' /\ Running' BY <1>1 DEF Inv, Idle, Running
<1>7. StateIsLogged'
  <2>1. state' # Nothing => Covered(state) BY <1>1 DEF Inv, StateIsLogged, Covered
  <2>2. state' # Nothing => \E i \in Digests' : log'[i].set = state
        BY <2>1, <1>2, <1>4, LogGrows
  <2> QED BY <1>1, <2>2 DEF StateIsLogged, Nothing
<1>8. DigestOnItsWay'
  <2>1. Covered(observed) \/ (queue[1].kind = "digest" /\ queue[1].set = observed)
        BY <1>1 DEF Inv, DigestOnItsWay
  <2>2. \E i \in Digests' : log'[i].set = observed
    <3>1. CASE Covered(observed) BY <1>2, <1>4, <3>1, LogGrows
    <3>2. CASE queue[1].kind = "digest" /\ queue[1].set = observed
          BY <1>2, <1>4, <3>2, LogGrows
    <3> QED BY <2>1, <3>1, <3>2
  <2> QED BY <1>1, <2>2 DEF DigestOnItsWay, Covered
<1>9. ASSUME NEW x \in Moved' PROVE SaidIn(queue, x)' \/ SaidIn(log, x)'
  <2>1. x \in Moved BY <1>1, <1>9 DEF Moved
  <2>2. CASE SaidIn(log, x) BY <1>1, <1>2, <1>4, <2>2, LogGrows
  <2>3. CASE SaidIn(queue, x)
    <3>1. PICK i \in DOMAIN queue : Says(queue[i], x) BY <2>3 DEF SaidIn
    <3>2. CASE i = 1 BY <1>1, <1>2, <1>4, <3>1, <3>2, LogGrows
    <3>3. CASE i # 1
      <4>1. i - 1 \in DOMAIN queue' /\ queue'[i - 1] = queue[i] BY <1>3, <3>3
      <4> QED BY <1>1, <3>1, <4>1 DEF SaidIn, Says
    <3> QED BY <3>2, <3>3
  <2> QED BY <1>1, <2>1, <2>2, <2>3 DEF Inv, LeavesOnTheirWay
<1>10. LeavesOnTheirWay' BY <1>1, <1>9 DEF LeavesOnTheirWay
<1> QED BY <1>5, <1>6, <1>7, <1>8, <1>10 DEF Inv

LEMMA AllSubmittedInv == ASSUME Inv, AllSubmitted PROVE Inv'
<1>1. /\ pc = "submit" /\ pc' = "save" /\ queue = << >>
      /\ UNCHANGED <<log, state, dry, prev, observed, changed, queue>>
      BY DEF AllSubmitted, memory
<1>2. Covered(observed) BY <1>1 DEF Inv, DigestOnItsWay
<1>3. \A m \in Moved : SaidIn(log, m) BY <1>1 DEF Inv, LeavesOnTheirWay, SaidIn
<1>4. IsSequence(log)' /\ IsSequence(changed)' /\ IsSequence(queue)'
      BY <1>1 DEF Inv, IsSequence
<1>5. Idle' /\ Running' BY <1>1 DEF Inv, Idle, Running
<1>6. StateIsLogged' BY <1>1 DEF Inv, StateIsLogged, Digests, Nothing
<1>7. DigestOnItsWay' BY <1>1, <1>2 DEF DigestOnItsWay, Covered, Digests
<1>8. LeavesOnTheirWay' BY <1>1, <1>3 DEF LeavesOnTheirWay, Moved, SaidIn, Says
<1> QED BY <1>4, <1>5, <1>6, <1>7, <1>8 DEF Inv

LEMMA SaveInv == ASSUME Inv, Save PROVE Inv'
<1>1. /\ pc = "save" /\ state' = observed /\ log' = log
      /\ pc' = "idle" /\ observed' = Nothing /\ changed' = << >> /\ queue' = << >>
      BY DEF Save, End, EmptyMemory, Nothing
<1>2. IsSequence(log)' /\ IsSequence(changed)' /\ IsSequence(queue)'
      BY <1>1, EmptySequence DEF Inv, IsSequence
<1>3. Idle' BY <1>1 DEF Idle, Nothing
<1>4. Running' /\ DigestOnItsWay' /\ LeavesOnTheirWay'
      BY <1>1 DEF Running, DigestOnItsWay, LeavesOnTheirWay
<1>5. Covered(observed) BY <1>1 DEF Inv, DigestOnItsWay
<1>6. StateIsLogged' BY <1>1, <1>5 DEF StateIsLogged, Covered, Digests
<1> QED BY <1>2, <1>3, <1>4, <1>6 DEF Inv

LEMMA CoveredStays ==
  ASSUME log' = log PROVE \A s : Covered(s) => Covered(s)'
BY DEF Covered, Digests

LEMMA StepInv == ASSUME MayDryRun = FALSE, Inv, [Next]_vars PROVE Inv'
<1>0. IsSequence(log) /\ (log' = log => IsSequence(log)') BY DEF Inv, IsSequence
<1>1. CASE HubMoves BY <1>1, QuietStep DEF HubMoves, memory
<1>2. CASE Start BY <1>2, StartInv
<1>3. CASE GetMeta BY <1>3, QuietStep DEF GetMeta
<1>4. CASE GetCard BY <1>4, ObserveInv DEF GetCard
<1>5. CASE CardRefused BY <1>5, ObserveInv DEF CardRefused
<1>6. CASE FetchFails BY <1>6, QuietStep DEF FetchFails
<1>7. CASE Queue BY <1>7, QueueInv
<1>8. CASE Submit BY <1>8, SubmitInv
<1>9. CASE SubmitFails
  <2>1. End("failed") /\ log' = log /\ state' = state BY <1>9 DEF SubmitFails
  <2> QED BY <1>0, <2>1, EndInv, CoveredStays
<1>10. CASE SubmitUnanswered
  <2>1. End("failed") /\ log' = Append(log, Head(queue)) /\ state' = state
        BY <1>10 DEF SubmitUnanswered
  <2>2. IsSequence(log)' /\ \A s : Covered(s) => Covered(s)'
        BY <1>0, <2>1, LogGrows DEF Covered
  <2> QED BY <2>1, <2>2, EndInv
<1>11. CASE AllSubmitted BY <1>11, AllSubmittedInv
<1>12. CASE Save BY <1>12, SaveInv
<1>13. CASE Killed
  <2>1. End("killed") /\ log' = log /\ state' = state BY <1>13 DEF Killed
  <2> QED BY <1>0, <2>1, EndInv, CoveredStays
<1>14. CASE SortRaises
  <2>1. End("failed") /\ log' = log /\ state' = state BY <1>14 DEF SortRaises
  <2> QED BY <1>0, <2>1, EndInv, CoveredStays
<1>15. CASE UNCHANGED vars BY <1>15, QuietStep DEF vars, memory
<1> QED BY <1>1, <1>2, <1>3, <1>4, <1>5, <1>6, <1>7, <1>8, <1>9, <1>10, <1>11,
           <1>12, <1>13, <1>14, <1>15 DEF Next

\* Only Save changes the state file, and by then the log has every leaf.
LEMMA StepMovesWithLeaf ==
  ASSUME Inv, [Next]_vars
  PROVE  [MovesHaveLeaves]_state
<1>1. CASE Save
  <2>1. pc = "save" /\ state' = observed /\ log' = log /\ prev = state
        BY <1>1 DEF Save, Inv, Running
  <2>2. ASSUME NEW m \in DOMAIN state \cap DOMAIN state', state'[m] # state[m]
        PROVE  \E i \in Details' : /\ log'[i].model = m
                                   /\ log'[i].was = state[m] /\ log'[i].fp = state'[m]
    <3>1. m \in Moved BY <2>1, <2>2 DEF Moved
    <3>2. PICK i \in DOMAIN log : Says(log[i], m)
          BY <2>1, <3>1 DEF Inv, LeavesOnTheirWay, SaidIn
    <3> QED BY <2>1, <3>2 DEF Says, Details
  <2> QED BY <2>2 DEF MovesHaveLeaves
<1>2. ASSUME ~Save PROVE state' = state
      BY <1>2 DEF Next, vars, HubMoves, Start, GetMeta, GetCard, CardRefused, Observe,
                  FetchFails, Queue, SortRaises, Submit, SubmitFails, SubmitUnanswered,
                  AllSubmitted, Killed
<1> QED BY <1>1, <1>2

\* Whatever a run leaves for the next to compare with, when all run with --submit,
\* the log has a digest of exactly that.
THEOREM StateIsAlwaysLogged ==
  ASSUME MayDryRun = FALSE PROVE Spec => []StateIsLogged
<1>1. Inv /\ [Next]_vars => Inv' BY StepInv
<1>2. Inv => StateIsLogged BY DEF Inv
<1> QED BY InitInv, <1>1, <1>2, PTL DEF Spec

\* The state file goes from one observation of a model to another only when the
\* log holds the detail leaf that says from which to which.
THEOREM BaselineMovesOnlyWithItsLeaf ==
  ASSUME MayDryRun = FALSE PROVE Spec => BaselineMovesWithItsLeaf
<1>1. Inv /\ [Next]_vars => Inv' BY StepInv
<1>2. Inv /\ [Next]_vars => [MovesHaveLeaves]_state BY StepMovesWithLeaf
<1> QED BY InitInv, <1>1, <1>2, PTL DEF Spec, BaselineMovesWithItsLeaf

-----------------------------------------------------------------------------
(* Types, and the models of a run.                                         *)

Served == [sha : Commits \cup {NoSha}, hidden : BOOLEAN,
           id : (UNION {NamesOf[m] : m \in Models}) \cup {NoId}]

\* What is still to ask for has been neither observed nor given up.
TypeInv ==
  /\ TypeOK
  /\ todo \in Seq(Models) /\ IsInjective(todo) /\ failed \subseteq Models
  /\ IsSequence(changed)
  /\ pc = "idle" => observed = Nothing /\ changed = << >> /\ failed = {}
  /\ pc = "card" => /\ meta \in Served /\ todo # << >>
                    /\ meta.id \in MayBeNamed[Head(todo)]

LEMMA TailIsDistinct ==
  ASSUME NEW S, NEW s \in Seq(S), s # << >>, IsInjective(s)
  PROVE  /\ Tail(s) \in Seq(S) /\ IsInjective(Tail(s)) /\ Head(s) \in S
         /\ ToSet(s) = ToSet(Tail(s)) \cup {Head(s)} /\ Head(s) \notin ToSet(Tail(s))
<1> DEFINE t == Tail(s)
<1>1. Len(s) \in Nat /\ Len(s) # 0 /\ DOMAIN s = 1..Len(s) /\ Head(s) = s[1] OBVIOUS
<1>2. t \in Seq(S) /\ DOMAIN t = 1..(Len(s) - 1) OBVIOUS
<1>3. \A i \in DOMAIN t : t[i] = s[i + 1] /\ i + 1 \in DOMAIN s /\ i + 1 # 1
      BY <1>1, <1>2
<1>4. \A i \in DOMAIN s : i = 1 \/ (i - 1 \in DOMAIN t /\ t[i - 1] = s[i]) BY <1>1, <1>2
<1>5. 1 \in DOMAIN s BY <1>1
<1> HIDE DEF t
<1>6. \A i, j \in DOMAIN t : i + 1 = j + 1 => i = j BY <1>1, <1>2
<1>7. IsInjective(t) BY <1>3, <1>6 DEF IsInjective
<1>8. Head(s) \notin ToSet(t) BY <1>1, <1>3, <1>5 DEF IsInjective, ToSet
<1>9. ToSet(s) = ToSet(t) \cup {Head(s)}
  <2>1. \A x \in ToSet(s) : x \in ToSet(t) \cup {Head(s)} BY <1>1, <1>4 DEF ToSet
  <2>2. \A x \in ToSet(t) : x \in ToSet(s) BY <1>3 DEF ToSet
  <2>3. Head(s) \in ToSet(s) BY <1>1, <1>5 DEF ToSet
  <2> QED BY <2>1, <2>2, <2>3
<1>10. Head(s) \in S BY <1>1, <1>5
<1> QED BY <1>2, <1>7, <1>8, <1>9, <1>10 DEF t

LEMMA ObservationsAre ==
  /\ \A S \in SUBSET Models : \A f \in [S -> Fingerprint] : f \in Observation
  /\ \A f \in Observation : DOMAIN f \in SUBSET Models /\ f \in [DOMAIN f -> Fingerprint]
BY DEF Observation

LEMMA NothingIsObserved == Nothing \in Observation /\ DOMAIN Nothing = {}
<1>1. Nothing \in [{} -> Fingerprint] BY DEF Nothing
<1> QED BY <1>1, ObservationsAre DEF Nothing

LEMMA NoneToDo == << >> \in Seq(Models) /\ IsInjective(<< >>) /\ ToSet(<< >>) = {}
BY DEF IsInjective, ToSet

LEMMA NoneChanged == {(<< >>)[i].model : i \in DOMAIN << >>} = {}
OBVIOUS

LEMMA InitTypes == Init => TypeInv
<1> SUFFICES ASSUME Init PROVE TypeInv OBVIOUS
<1>1. hub \in [Models -> Repository] /\ \A m \in Models : hub[m].id \in NamesOf[m]
  <2>1. PICK c \in Commits, id \in [Models -> UNION {NamesOf[m] : m \in Models}] :
          /\ \A m \in Models : id[m] \in NamesOf[m]
          /\ hub = [m \in Models |-> [id |-> id[m], head |-> c, hidden |-> FALSE, up |-> TRUE]]
        BY DEF Init
  <2> QED BY <2>1 DEF Repository
<1>2. /\ moves \in 0..MaxMoves /\ faults \in 0..MaxFaults /\ run \in 0..MaxRuns
      BY WatchAssumption DEF Init
<1>3. /\ state \in Observation /\ prev \in Observation /\ observed \in Observation
      /\ DOMAIN observed \cap failed = {} /\ failed \subseteq Models
      /\ todo \in Seq(Models) /\ IsInjective(todo) /\ IsSequence(changed)
      BY NothingIsObserved, NoneToDo, EmptySequence DEF Init
<1>4. /\ rc = "none" /\ pc = "idle" /\ observed = Nothing /\ changed = << >> /\ failed = {}
      BY DEF Init
<1> QED BY <1>1, <1>2, <1>3, <1>4, NoneChanged DEF TypeInv, TypeOK

\* What goes on outside the run.
Outside == /\ hub \in [Models -> Repository] /\ \A m \in Models : hub[m].id \in NamesOf[m]
           /\ moves \in 0..MaxMoves /\ faults \in 0..MaxFaults

LEMMA FaultTypes == ASSUME Outside, Fault PROVE Outside'
<1>1. faults' \in 0..MaxFaults BY WatchAssumption DEF Fault, Outside
<1> QED BY <1>1 DEF Fault, Outside

LEMMA UnservedTypes ==
  ASSUME Outside, NEW b, Unserved(b) PROVE Outside'
<1>1. CASE Fault BY <1>1, FaultTypes
<1>2. CASE UNCHANGED outside BY <1>2 DEF outside, Outside
<1> QED BY <1>1, <1>2 DEF Unserved

LEMMA HubTypes == ASSUME TypeInv, HubMoves PROVE TypeInv'
<1>1. /\ moves' = moves + 1 /\ moves < MaxMoves
      /\ UNCHANGED <<faults, state, run, rc, pc, prev, todo, meta, observed, changed, failed>>
      BY DEF HubMoves, memory
<1>2. hub \in [Models -> Repository] /\ \A m \in Models : hub[m].id \in NamesOf[m]
      BY DEF TypeInv, TypeOK
<1>3. PICK m \in Models : RepositoryMoves(m) \/ LineMoves(m) BY DEF HubMoves
<1>4. hub' \in [Models -> Repository] /\ \A x \in Models : hub'[x].id \in NamesOf[x]
  <2>1. ASSUME NEW repo \in Repository, repo.id = hub[m].id,
               hub' = [x \in Models |-> IF hub[x].id = hub[m].id THEN repo ELSE hub[x]]
        PROVE  hub' \in [Models -> Repository] /\ \A x \in Models : hub'[x].id \in NamesOf[x]
        BY <1>2, <2>1
  <2>2. CASE RepositoryMoves(m)
    <3>1. \/ \E c \in Commits : LET repo == [hub[m] EXCEPT !.head = c] IN
                hub' = [x \in Models |-> IF hub[x].id = hub[m].id THEN repo ELSE hub[x]]
          \/ LET repo == [hub[m] EXCEPT !.hidden = ~@] IN
                hub' = [x \in Models |-> IF hub[x].id = hub[m].id THEN repo ELSE hub[x]]
          \/ LET repo == [hub[m] EXCEPT !.up = ~@] IN
                hub' = [x \in Models |-> IF hub[x].id = hub[m].id THEN repo ELSE hub[x]]
          BY <2>2 DEF RepositoryMoves
    <3>2. hub[m] \in Repository BY <1>2, <1>3
    <3>3. \A c \in Commits : /\ [hub[m] EXCEPT !.head = c] \in Repository
                             /\ [hub[m] EXCEPT !.head = c].id = hub[m].id
          BY <3>2 DEF Repository
    <3>4. /\ [hub[m] EXCEPT !.hidden = ~@] \in Repository
          /\ [hub[m] EXCEPT !.hidden = ~@].id = hub[m].id
          BY <3>2 DEF Repository
    <3>5. /\ [hub[m] EXCEPT !.up = ~@] \in Repository
          /\ [hub[m] EXCEPT !.up = ~@].id = hub[m].id
          BY <3>2 DEF Repository
    <3> QED BY <3>1, <3>3, <3>4, <3>5, <2>1
  <2>3. CASE LineMoves(m)
    <3>1. PICK n \in NamesOf[m] :
            \/ \E x \in Models : hub[x].id = n /\ hub' = [hub EXCEPT ![m] = hub[x]]
            \/ hub' = [hub EXCEPT ![m] = [hub[m] EXCEPT !.id = n]]
          BY <2>3 DEF LineMoves
    <3>2. CASE \E x \in Models : hub[x].id = n /\ hub' = [hub EXCEPT ![m] = hub[x]]
          BY <1>2, <3>2
    <3>3. CASE hub' = [hub EXCEPT ![m] = [hub[m] EXCEPT !.id = n]]
      <4>1. hub[m] \in Repository /\ n \in UNION {NamesOf[x] : x \in Models} BY <1>2, <1>3
      <4>2. [hub[m] EXCEPT !.id = n] \in Repository /\ [hub[m] EXCEPT !.id = n].id = n
            BY <4>1 DEF Repository
      <4> QED BY <1>2, <3>3, <4>2
    <3> QED BY <3>1, <3>2, <3>3
  <2> QED BY <1>3, <2>2, <2>3
<1>5. moves' \in 0..MaxMoves BY <1>1, WatchAssumption DEF TypeInv, TypeOK
<1> QED BY <1>1, <1>4, <1>5 DEF TypeInv, TypeOK, IsInjective, IsSequence, ToSet, Nothing, Served,
                                    MayBeNamed

LEMMA EndTypes ==
  ASSUME TypeInv, NEW how \in {"ok", "failed", "killed"}, End(how),
         Outside', state' \in Observation, run' = run
  PROVE  TypeInv'
<1>1. /\ pc' = "idle" /\ rc' = how /\ prev' = Nothing /\ todo' = << >>
      /\ observed' = Nothing /\ changed' = << >> /\ failed' = {}
      BY DEF End, EmptyMemory
<1>2. observed' = Nothing' BY <1>1 DEF Nothing
<1>3. /\ prev' \in Observation /\ observed' \in Observation /\ DOMAIN observed' \cap failed' = {}
      /\ todo' \in Seq(Models) /\ IsInjective(todo)' /\ IsSequence(changed)'
      BY <1>1, NothingIsObserved, NoneToDo, EmptySequence DEF IsInjective, IsSequence
<1>4. {changed[i].model : i \in DOMAIN changed}' = {} BY <1>1, NoneChanged
<1> QED BY <1>1, <1>2, <1>3, <1>4 DEF TypeInv, TypeOK, Outside

LEMMA StartTypes == ASSUME TypeInv, Start PROVE TypeInv'
<1>1. /\ pc = "idle" /\ pc' = "meta" /\ run < MaxRuns /\ run' = run + 1 /\ rc' = "none"
      /\ prev' = state /\ todo' = Ids
      /\ UNCHANGED <<hub, moves, faults, state, observed, changed, failed>>
      BY DEF Start, outside
<1>2. /\ observed = Nothing /\ DOMAIN observed = {} /\ failed = {} /\ changed = << >>
      BY <1>1, NothingIsObserved DEF TypeInv
<1>3. todo' \in Seq(Models) /\ IsInjective(todo)' /\ ToSet(todo)' = Models
      BY <1>1, WatchAssumption DEF Models, IsInjective, ToSet
<1>4. run' \in 0..MaxRuns BY <1>1, WatchAssumption DEF TypeInv, TypeOK
<1>5. DOMAIN observed' \cup failed' = Models \ ToSet(todo)' BY <1>1, <1>2, <1>3
<1>6. IsSequence(changed)' BY <1>1 DEF TypeInv, IsSequence
<1> QED BY <1>1, <1>2, <1>3, <1>4, <1>5, <1>6 DEF TypeInv, TypeOK

\* A step of a run that goes on with what it has.
LEMMA QuietTypes ==
  ASSUME TypeInv, Outside', pc # "idle", pc' \in {"submit", "save"},
         UNCHANGED <<state, run, rc, prev, todo, observed, changed, failed>>
  PROVE  TypeInv'
BY DEF TypeInv, TypeOK, Outside, IsInjective, IsSequence, ToSet

LEMMA GetMetaTypes == ASSUME TypeInv, GetMeta PROVE TypeInv'
<1>1. /\ pc = "meta" /\ pc' = "card" /\ todo # << >>
      /\ UNCHANGED <<state, run, rc, prev, todo, observed, changed, failed>>
      BY DEF GetMeta
<1>2. Head(todo) \in Models BY <1>1, TailIsDistinct DEF TypeInv
<1>3. /\ hub[Head(todo)].head \in Commits /\ hub[Head(todo)].hidden \in BOOLEAN
      /\ hub[Head(todo)].id \in NamesOf[Head(todo)]
      /\ hub[Head(todo)].id \in UNION {NamesOf[m] : m \in Models}
      BY <1>2 DEF TypeInv, TypeOK, Repository
<1>4. meta' \in Served /\ meta'.id \in MayBeNamed[Head(todo)]
  <2> DEFINE repo == hub[Head(todo)]
             told == [sha |-> repo.head, hidden |-> repo.hidden, id |-> repo.id]
  <2>1. meta' = told \/ meta' = [told EXCEPT !.sha = NoSha] \/ meta' = [told EXCEPT !.id = NoId]
        BY DEF GetMeta
  <2>2. MayBeNamed[Head(todo)] = NamesOf[Head(todo)] \cup {NoId} BY <1>2 DEF MayBeNamed
  <2>3. CASE meta' = told BY <1>3, <2>2, <2>3 DEF Served
  <2>4. CASE meta' = [told EXCEPT !.sha = NoSha]
    <3>1. meta' = [sha |-> NoSha, hidden |-> repo.hidden, id |-> repo.id] BY <2>4
    <3> QED BY <1>3, <2>2, <3>1 DEF Served
  <2>5. CASE meta' = [told EXCEPT !.id = NoId]
    <3>1. meta' = [sha |-> repo.head, hidden |-> repo.hidden, id |-> NoId] BY <2>5
    <3> QED BY <1>3, <2>2, <3>1 DEF Served
  <2> QED BY <2>1, <2>3, <2>4, <2>5
<1>5. Outside'
  <2>1. Outside BY DEF TypeInv, TypeOK, Outside
  <2>2. CASE UNCHANGED outside BY <2>1, <2>2 DEF outside, Outside
  <2>3. CASE Fault BY <2>1, <2>3, FaultTypes
  <2> QED BY <2>2, <2>3 DEF GetMeta
<1>6. meta' \in Served' /\ meta'.id \in MayBeNamed'[Head(todo')]
      BY <1>1, <1>4 DEF Served, MayBeNamed
<1> QED BY <1>1, <1>5, <1>6 DEF TypeInv, TypeOK, Outside, IsInjective, IsSequence, ToSet

\* The model is taken off the list, and was on it once.
LEMMA NextModel ==
  ASSUME TypeInv, pc \in {"meta", "card"}, todo # << >>
  PROVE  /\ Head(todo) \in Models /\ Tail(todo) \in Seq(Models) /\ IsInjective(Tail(todo))
         /\ Head(todo) \notin DOMAIN observed /\ Head(todo) \notin failed
         /\ DOMAIN observed \cup failed \cup {Head(todo)} = Models \ ToSet(Tail(todo))
<1> DEFINE h == Head(todo)
           t == Tail(todo)
<1>1. /\ t \in Seq(Models) /\ IsInjective(t) /\ h \in Models
      /\ ToSet(todo) = ToSet(t) \cup {h} /\ h \notin ToSet(t)
      BY TailIsDistinct DEF TypeInv
<1>2. DOMAIN observed \cup failed = Models \ ToSet(todo) BY DEF TypeInv, TypeOK
<1> HIDE DEF h, t
<1>3. DOMAIN observed \cup failed \cup {h} = Models \ ToSet(t)
  <2>1. ASSUME NEW x \in DOMAIN observed \cup failed \cup {h} PROVE x \in Models \ ToSet(t)
        BY <1>1, <1>2
  <2>2. ASSUME NEW x \in Models \ ToSet(t) PROVE x \in DOMAIN observed \cup failed \cup {h}
        BY <1>1, <1>2
  <2> QED BY <2>1, <2>2
<1>4. h \notin DOMAIN observed /\ h \notin failed BY <1>1, <1>2
<1> QED BY <1>1, <1>3, <1>4 DEF h, t

LEMMA FailsTypes == ASSUME TypeInv, FetchFails PROVE TypeInv'
<1>1. /\ pc \in {"meta", "card"} /\ pc' = "meta" /\ todo # << >>
      /\ failed' = failed \cup {Head(todo)} /\ todo' = Tail(todo)
      /\ UNCHANGED <<state, run, rc, prev, observed, changed>>
      BY DEF FetchFails
<1>2. Outside'
  <2>1. Outside BY DEF TypeInv, TypeOK, Outside
  <2> QED BY <2>1, UnservedTypes DEF FetchFails
<1>3. /\ Head(todo) \in Models /\ todo' \in Seq(Models) /\ IsInjective(todo')
      /\ Head(todo) \notin DOMAIN observed
      /\ DOMAIN observed \cup failed \cup {Head(todo)} = Models \ ToSet(todo')
      BY <1>1, NextModel
<1>4. failed \subseteq Models /\ DOMAIN observed \cap failed = {} BY DEF TypeInv, TypeOK
<1>5. failed' \subseteq Models /\ DOMAIN observed' \cap failed' = {} BY <1>1, <1>3, <1>4
<1>6. DOMAIN observed' \cup failed' = Models \ ToSet(todo') BY <1>1, <1>3
<1>7. IsInjective(todo)' /\ ToSet(todo)' = ToSet(todo') BY <1>3 DEF IsInjective, ToSet
<1> QED BY <1>1, <1>2, <1>3, <1>5, <1>6, <1>7 DEF TypeInv, TypeOK, Outside, IsSequence

LEMMA ObserveTypes ==
  ASSUME TypeInv, pc = "card", NEW card \in Commits \cup {Unavailable}, Observe(card), Outside'
  PROVE  TypeInv'
<1> DEFINE m  == Head(todo)
           fp == [sha |-> meta.sha, card |-> card, hidden |-> meta.hidden]
<1>1. /\ observed' = [x \in DOMAIN observed \cup {m} |-> IF x = m THEN fp ELSE observed[x]]
      /\ changed' = IF m \in DOMAIN prev /\ prev[m] # fp
                    THEN Append(changed, DetailLeaf(run, m, meta.id, fp, prev[m]))
                    ELSE changed
      /\ todo' = Tail(todo) /\ pc' = "meta"
      /\ UNCHANGED <<state, run, rc, prev, failed>>
      BY DEF Observe
<1>2. meta \in Served /\ todo # << >> BY DEF TypeInv
<1>3. fp \in Fingerprint BY <1>2 DEF Served, Fingerprint
<1>4. /\ m \in Models /\ todo' \in Seq(Models) /\ IsInjective(todo')
      /\ m \notin failed
      /\ DOMAIN observed \cup failed \cup {m} = Models \ ToSet(todo')
      BY <1>1, <1>2, NextModel
<1>5. observed \in Observation /\ DOMAIN observed \cap failed = {} /\ failed \subseteq Models
      /\ {changed[i].model : i \in DOMAIN changed} \subseteq DOMAIN observed
      /\ IsSequence(changed)
      BY DEF TypeInv, TypeOK
<1> HIDE DEF m, fp
<1>6. observed' \in Observation /\ DOMAIN observed' = DOMAIN observed \cup {m}
  <2>1. observed \in [DOMAIN observed -> Fingerprint] /\ DOMAIN observed \subseteq Models
        BY <1>5, ObservationsAre
  <2>2. observed' \in [DOMAIN observed \cup {m} -> Fingerprint] BY <1>1, <1>3, <2>1
  <2>3. DOMAIN observed \cup {m} \in SUBSET Models BY <1>4, <2>1
  <2> QED BY <1>1, <2>2, <2>3, ObservationsAre
<1>7. DOMAIN observed' \cap failed' = {} /\ DOMAIN observed' \cup failed' = Models \ ToSet(todo')
      BY <1>1, <1>4, <1>5, <1>6
<1>8. /\ IsSequence(changed)'
      /\ {changed[i].model : i \in DOMAIN changed}' \subseteq DOMAIN observed'
  <2>1. CASE changed' = changed BY <1>5, <1>6, <2>1 DEF IsSequence
  <2>2. CASE changed' = Append(changed, DetailLeaf(run, m, meta.id, fp, prev[m]))
    <3> DEFINE leaf == DetailLeaf(run, m, meta.id, fp, prev[m])
    <3>1. leaf.model = m BY DEF DetailLeaf
    <3> HIDE DEF leaf
    <3>2. /\ IsSequence(changed')
          /\ \A i \in DOMAIN changed' : changed'[i] = leaf \/ (i \in DOMAIN changed /\ changed'[i] = changed[i])
      <4>1. PICK S : changed \in Seq(S) BY <1>5 DEF IsSequence
      <4>2. changed \in Seq(S \cup {leaf}) /\ leaf \in S \cup {leaf} BY <4>1
      <4>3. changed' = Append(changed, leaf) BY <2>2 DEF leaf
      <4>4. /\ changed' \in Seq(S \cup {leaf})
            /\ \A i \in DOMAIN changed' :
                 changed'[i] = leaf \/ (i \in DOMAIN changed /\ changed'[i] = changed[i])
            BY <4>2, <4>3
      <4> QED BY <4>4 DEF IsSequence
    <3>3. \A i \in DOMAIN changed' : changed'[i].model \in DOMAIN observed \cup {m}
          BY <1>5, <3>1, <3>2
    <3> QED BY <1>6, <3>2, <3>3 DEF IsSequence
  <2> QED BY <1>1, <2>1, <2>2
<1>9. IsInjective(todo)' /\ ToSet(todo)' = ToSet(todo') BY <1>4 DEF IsInjective, ToSet
<1> QED BY <1>1, <1>4, <1>5, <1>6, <1>7, <1>8, <1>9 DEF TypeInv, TypeOK, Outside

LEMMA StepTypes == ASSUME TypeInv, [Next]_vars PROVE TypeInv'
<1>0. Outside /\ state \in Observation /\ observed \in Observation
      BY DEF TypeInv, TypeOK, Outside
<1>1. CASE HubMoves BY <1>1, HubTypes
<1>2. CASE Start BY <1>2, StartTypes
<1>3. CASE GetMeta BY <1>3, GetMetaTypes
<1>4. CASE GetCard
  <2> DEFINE card == IF meta.sha # NoSha THEN meta.sha ELSE hub[Head(todo)].head
  <2>1. pc = "card" /\ Observe(card) /\ UNCHANGED outside BY <1>4 DEF GetCard
  <2>2. meta \in Served /\ Head(todo) \in Models
        BY <2>1, TailIsDistinct DEF TypeInv
  <2>3. card \in Commits \cup {Unavailable}
        BY <1>0, <2>2 DEF Served, Outside, Repository
  <2>4. Outside' BY <1>0, <2>1 DEF outside, Outside
  <2> QED BY <2>1, <2>3, <2>4, ObserveTypes
<1>5. CASE CardRefused
  <2>1. pc = "card" /\ Observe(Unavailable) BY <1>5 DEF CardRefused
  <2>2. Outside' BY <1>0, <1>5, UnservedTypes DEF CardRefused
  <2> QED BY <2>1, <2>2, ObserveTypes
<1>6. CASE FetchFails BY <1>6, FailsTypes
<1>7. CASE Queue
  <2>1. Outside' BY <1>0, <1>7 DEF Queue, outside, Outside
  <2> QED BY <1>7, <2>1, QuietTypes DEF Queue
<1>8. CASE Submit
  <2>1. Outside' BY <1>0, <1>8 DEF Submit, outside, Outside
  <2> QED BY <1>8, <2>1, QuietTypes DEF Submit
<1>9. CASE SubmitFails
  <2>1. Outside' BY <1>0, <1>9, FaultTypes DEF SubmitFails
  <2> QED BY <1>0, <1>9, <2>1, EndTypes DEF SubmitFails
<1>10. CASE SubmitUnanswered
  <2>1. Outside' BY <1>0, <1>10, FaultTypes DEF SubmitUnanswered
  <2> QED BY <1>0, <1>10, <2>1, EndTypes DEF SubmitUnanswered
<1>11. CASE AllSubmitted
  <2>1. Outside' BY <1>0, <1>11 DEF AllSubmitted, outside, Outside
  <2> QED BY <1>11, <2>1, QuietTypes DEF AllSubmitted, memory
<1>12. CASE Save
  <2>1. Outside' BY <1>0, <1>12 DEF Save, outside, Outside
  <2> QED BY <1>0, <1>12, <2>1, EndTypes DEF Save
<1>13. CASE Killed
  <2>1. Outside' BY <1>0, <1>13, FaultTypes DEF Killed
  <2> QED BY <1>0, <1>13, <2>1, EndTypes DEF Killed
<1>14. CASE SortRaises
  <2>1. Outside' BY <1>0, <1>14 DEF SortRaises, outside, Outside
  <2> QED BY <1>0, <1>14, <2>1, EndTypes DEF SortRaises
<1>15. CASE UNCHANGED vars
       BY <1>15 DEF vars, outside, memory, TypeInv, TypeOK, IsInjective, IsSequence, ToSet,
                    Nothing, Served, MayBeNamed
<1> QED BY <1>1, <1>2, <1>3, <1>4, <1>5, <1>6, <1>7, <1>8, <1>9, <1>10, <1>11, <1>12,
           <1>13, <1>14, <1>15 DEF Next

\* hf_watch.py:73-97, for any models, moves, failures and kills, dry runs included:
\* every line of models.txt is observed or given up in a run and never both, and a run
\* has a detail leaf only for lines it has observed, whatever the Hub calls the models.
THEOREM TypeCorrect == Spec => []TypeOK
<1>1. TypeInv => TypeOK BY DEF TypeInv
<1> QED BY InitTypes, StepTypes, <1>1, PTL DEF Spec

-----------------------------------------------------------------------------
(* HFWatch implements Observations.  The invariant above says that the     *)
(* digest of a run is on its way; what is added here is that the digest    *)
(* has a name for each model that has moved, one that the Hub may give it. *)

\* The models still to be observed are each met once.
Ordered ==
  /\ IsSequence(todo) /\ IsInjective(todo)
  /\ pc \in {"meta", "card"} => \A i \in DOMAIN todo : todo[i] \notin DOMAIN observed
  /\ pc = "card" => todo # << >>

Named == {changed[i].model : i \in DOMAIN changed}

NamesWhatMoved ==
  /\ \A i \in DOMAIN changed : /\ changed[i].kind = "detail"
                               /\ changed[i].id \in MayBeNamed[changed[i].model]
  /\ \A i, j \in DOMAIN changed : changed[i].model = changed[j].model => i = j
  /\ pc # "idle" => Named = Moved

SaysAll(leaf) == leaf.set = observed /\ leaf.changed = ChangedIds

Recorded == \E leaf \in OnRecord : SaysAll(leaf)

DigestSaysAll ==
  /\ pc = "submit" =>
       /\ \A i \in DOMAIN queue : queue[i].kind = "digest" => SaysAll(queue[i])
       /\ Recorded \/ (queue # << >> /\ queue[1].kind = "digest")
  /\ pc = "save" => Recorded

PInv == Inv /\ TypeInv /\ Ordered /\ NamesWhatMoved /\ DigestSaysAll

-----------------------------------------------------------------------------

Entry(leaf) == [set |-> leaf.set, changed |-> leaf.changed]

\* What an append does to the record.
LEMMA RecordGrows ==
  ASSUME IsSequence(log), NEW x, log' = Append(log, x)
  PROVE  /\ OnRecord \subseteq OnRecord'
         /\ x.kind = "digest" => OnRecord' = OnRecord \cup {Entry(x)}
         /\ x.kind # "digest" => OnRecord' = OnRecord
<1>1. /\ DOMAIN log \subseteq DOMAIN log'
      /\ \A i \in DOMAIN log : log'[i] = log[i]
      /\ Len(log) + 1 \in DOMAIN log' /\ log'[Len(log) + 1] = x
      BY AppendToSequence
<1>2. \A i \in DOMAIN log' : (i \in DOMAIN log /\ log'[i] = log[i]) \/ log'[i] = x
      BY AppendAddsOne
<1>3. OnRecord \subseteq OnRecord' BY <1>1 DEF OnRecord, Digests
<1>4. ASSUME NEW leaf \in OnRecord' PROVE leaf \in OnRecord \/ (x.kind = "digest" /\ leaf = Entry(x))
  <2>1. PICK i \in DOMAIN log' : log'[i].kind = "digest" /\ leaf = Entry(log'[i])
        BY <1>4 DEF OnRecord, Digests, Entry
  <2> QED BY <1>2, <2>1 DEF OnRecord, Digests, Entry
<1>5. x.kind = "digest" => Entry(x) \in OnRecord' BY <1>1 DEF OnRecord, Digests, Entry
<1> QED BY <1>3, <1>4, <1>5

LEMMA RecordStays == ASSUME log' = log PROVE OnRecord' = OnRecord
BY DEF OnRecord, Digests

-----------------------------------------------------------------------------

LEMMA InitPromise == Init => PInv /\ Promise!Init
<1> SUFFICES ASSUME Init PROVE PInv /\ Promise!Init OBVIOUS
<1>1. log = << >> /\ todo = << >> /\ changed = << >> /\ pc = "idle" /\ state = Nothing
      BY DEF Init
<1>2. DOMAIN (<< >>) = {} OBVIOUS
<1>3. Ordered BY <1>1, <1>2, EmptySequence DEF Ordered, IsInjective
<1>4. NamesWhatMoved /\ DigestSaysAll BY <1>1, <1>2 DEF NamesWhatMoved, DigestSaysAll
<1>5. OnRecord = {} BY <1>1, <1>2 DEF OnRecord, Digests
<1>6. state = [x \in {} |-> x] BY <1>1 DEF Nothing
<1> QED BY <1>3, <1>4, <1>5, <1>6, InitInv, InitTypes DEF PInv, Promise!Init

\* The memory of a process that has ended asks for nothing.
LEMMA EndPromise ==
  ASSUME NEW how, End(how) PROVE Ordered' /\ NamesWhatMoved' /\ DigestSaysAll'
<1>1. pc' = "idle" /\ todo' = << >> /\ changed' = << >> BY DEF End, EmptyMemory
<1>2. IsSequence(todo)' BY <1>1, EmptySequence DEF IsSequence
<1>3. DOMAIN todo' = {} /\ DOMAIN changed' = {} BY <1>1
<1> QED BY <1>1, <1>2, <1>3 DEF Ordered, NamesWhatMoved, DigestSaysAll, IsInjective

\* What is left of the list is still met once.
LEMMA TailOrdered ==
  ASSUME Ordered, todo # << >>, todo' = Tail(todo)
  PROVE  /\ IsSequence(todo)' /\ IsInjective(todo')
         /\ \A i \in DOMAIN todo' : todo'[i] # Head(todo)
         /\ \A i \in DOMAIN todo' : \E j \in DOMAIN todo : todo'[i] = todo[j]
<1>1. IsSequence(todo) /\ IsInjective(todo) BY DEF Ordered
<1>2. /\ IsSequence(Tail(todo)) /\ 1 \in DOMAIN todo /\ Head(todo) = todo[1]
      BY <1>1, TailOfSequence
<1>3. \A i \in DOMAIN Tail(todo) :
        i + 1 \in DOMAIN todo /\ i + 1 # 1 /\ Tail(todo)[i] = todo[i + 1]
      BY <1>1, TailIsOfSequence
<1>4. PICK S : Tail(todo) \in Seq(S) BY <1>2 DEF IsSequence
<1>5. \A i \in DOMAIN Tail(todo) : i \in Nat BY <1>4
<1>6. IsInjective(todo')
  <2> SUFFICES ASSUME NEW i \in DOMAIN Tail(todo), NEW j \in DOMAIN Tail(todo),
                      Tail(todo)[i] = Tail(todo)[j]
               PROVE  i = j
      BY DEF IsInjective
  <2>1. i + 1 = j + 1 BY <1>1, <1>3 DEF IsInjective
  <2> QED BY <2>1, <1>5
<1>7. \A i \in DOMAIN todo' : todo'[i] # Head(todo) BY <1>1, <1>2, <1>3 DEF IsInjective
<1> QED BY <1>2, <1>3, <1>6, <1>7 DEF IsSequence

LEMMA StartPromise == ASSUME Inv, Start PROVE Ordered' /\ NamesWhatMoved' /\ DigestSaysAll'
<1>1. /\ pc = "idle" /\ pc' = "meta" /\ todo' = Ids
      /\ observed' = observed /\ changed' = changed
      BY DEF Start
<1>2. observed = Nothing /\ changed = << >> BY <1>1 DEF Inv, Idle
<1>3. DOMAIN observed = {} /\ DOMAIN changed = {} BY <1>2 DEF Nothing
<1>4. IsSequence(todo)' /\ IsInjective(todo') BY <1>1, WatchAssumption DEF IsSequence
<1>5. Ordered' BY <1>1, <1>3, <1>4 DEF Ordered
<1>6. Named' = {} /\ Moved' = {} BY <1>1, <1>3 DEF Named, Moved
<1> QED BY <1>1, <1>3, <1>5, <1>6 DEF NamesWhatMoved, DigestSaysAll

\* A model is named in the step that finds that it has moved, and in no other.
LEMMA ObservePromise ==
  ASSUME PInv, pc = "card", NEW card, Observe(card)
  PROVE  Ordered' /\ NamesWhatMoved' /\ DigestSaysAll'
<1> DEFINE m  == Head(todo)
           fp == [sha |-> meta.sha, card |-> card, hidden |-> meta.hidden]
           leaf == DetailLeaf(run, m, meta.id, fp, prev[m])
<1>1. /\ observed' = [x \in DOMAIN observed \cup {m} |-> IF x = m THEN fp ELSE observed[x]]
      /\ changed' = IF m \in DOMAIN prev /\ prev[m] # fp THEN Append(changed, leaf) ELSE changed
      /\ pc' = "meta" /\ todo' = Tail(todo) /\ prev' = prev
      BY DEF Observe
<1>2. /\ leaf.kind = "detail" /\ leaf.model = m
      /\ leaf.id \in MayBeNamed[m]
      BY DEF DetailLeaf, PInv, TypeInv
<1>0. todo # << >> BY DEF PInv, Ordered
<1> HIDE DEF m, fp, leaf
<1>3. /\ IsSequence(todo)' /\ IsInjective(todo')
      /\ \A i \in DOMAIN todo' : todo'[i] # m
      /\ \A i \in DOMAIN todo' : \E j \in DOMAIN todo : todo'[i] = todo[j]
      BY <1>0, <1>1, TailOrdered DEF PInv, m
<1>4. m \notin DOMAIN observed
  <2>1. 1 \in DOMAIN todo /\ m = todo[1] BY <1>0, TailOfSequence DEF PInv, Ordered, m
  <2> QED BY <2>1 DEF PInv, Ordered
<1>5. Ordered' BY <1>1, <1>3 DEF PInv, Ordered
<1>6. IsSequence(changed) /\ Named = Moved BY DEF PInv, Inv, NamesWhatMoved
<1>7. Moved' = Moved \cup (IF m \in DOMAIN prev /\ prev[m] # fp THEN {m} ELSE {})
      BY <1>1, <1>4 DEF Moved
<1>8. NamesWhatMoved'
  <2>1. CASE ~(m \in DOMAIN prev /\ prev[m] # fp)
    <3>1. changed' = changed /\ Moved' = Moved BY <1>1, <1>7, <2>1
    <3> QED BY <3>1, <1>6 DEF PInv, NamesWhatMoved, Named, MayBeNamed
  <2>2. CASE m \in DOMAIN prev /\ prev[m] # fp
    <3>1. changed' = Append(changed, leaf) /\ Moved' = Moved \cup {m} BY <1>1, <1>7, <2>2
    <3>2. /\ DOMAIN changed' = DOMAIN changed \cup {Len(changed) + 1}
          /\ \A i \in DOMAIN changed : changed'[i] = changed[i]
          /\ changed'[Len(changed) + 1] = leaf
          BY <1>6, <3>1, AppendPlaces
    <3>3. \A i \in DOMAIN changed' : (i \in DOMAIN changed /\ changed'[i] = changed[i])
                                     \/ changed'[i] = leaf
          BY <3>2
    <3>4. Named' = Named \cup {m}
      <4>1. Named \cup {m} \subseteq Named' BY <3>2, <1>2 DEF Named
      <4>2. Named' \subseteq Named \cup {m} BY <3>3, <1>2 DEF Named
      <4> QED BY <4>1, <4>2
    <3>5. \A i \in DOMAIN changed' : /\ changed'[i].kind = "detail"
                                     /\ changed'[i].id \in MayBeNamed[changed'[i].model]
          BY <3>3, <1>2 DEF PInv, NamesWhatMoved
    <3>6. \A i \in DOMAIN changed : changed[i].model # m
          BY <1>4, <1>6 DEF Named, Moved
    <3>7. \A i, j \in DOMAIN changed' : changed'[i].model = changed'[j].model => i = j
          BY <3>2, <3>6, <1>2 DEF PInv, NamesWhatMoved
    <3>8. MayBeNamed' = MayBeNamed BY DEF MayBeNamed
    <3> QED BY <3>1, <3>4, <3>5, <3>7, <3>8, <1>6 DEF NamesWhatMoved
  <2> QED BY <2>1, <2>2
<1> QED BY <1>1, <1>5, <1>8 DEF DigestSaysAll

LEMMA NamesStay ==
  ASSUME NamesWhatMoved, UNCHANGED <<prev, observed, changed>>, pc' # "idle" => pc # "idle"
  PROVE  NamesWhatMoved'
<1>1. Named' = Named /\ Moved' = Moved BY DEF Named, Moved
<1>2. MayBeNamed' = MayBeNamed BY DEF MayBeNamed
<1>3. \A i \in DOMAIN changed' : /\ changed'[i].kind = "detail"
                                 /\ changed'[i].id \in MayBeNamed[changed'[i].model]
      BY DEF NamesWhatMoved
<1>4. \A i, j \in DOMAIN changed' : changed'[i].model = changed'[j].model => i = j
      BY DEF NamesWhatMoved
<1>5. pc' # "idle" => Named' = Moved' BY <1>1 DEF NamesWhatMoved
<1> QED BY <1>2, <1>3, <1>4, <1>5 DEF NamesWhatMoved

LEMMA QueuePromise == ASSUME PInv, Queue PROVE Ordered' /\ NamesWhatMoved' /\ DigestSaysAll'
<1>1. /\ pc = "meta" /\ pc' = "submit" /\ queue' = <<Digest>> \o changed
      /\ UNCHANGED <<log, prev, todo, observed, changed>>
      BY DEF Queue, PInv, Inv, Running
<1>2. IsSequence(changed) /\ \A i \in DOMAIN changed : changed[i].kind = "detail"
      BY <1>1 DEF PInv, Inv, NamesWhatMoved
<1>3. Digest.kind = "digest" /\ SaysAll(Digest) BY DEF Digest, DigestLeaf, SaysAll
<1>4. queue' # << >> /\ queue'[1] = Digest BY <1>1, <1>2, PrefixedSequence
<1>5. \A i \in DOMAIN queue' : queue'[i] = Digest \/ \E j \in DOMAIN changed : queue'[i] = changed[j]
      BY <1>1, <1>2, PrefixedIsOfSequence
<1>6. \A i \in DOMAIN queue' : queue'[i].kind = "digest" => SaysAll(queue'[i])
      BY <1>2, <1>3, <1>5
<1>7. ChangedIds' = ChangedIds BY <1>1 DEF ChangedIds
<1>8. \A i \in DOMAIN queue' : queue'[i].kind = "digest" =>
        queue'[i].set = observed' /\ queue'[i].changed = ChangedIds'
      BY <1>1, <1>6, <1>7 DEF SaysAll
<1>9. DigestSaysAll' BY <1>1, <1>3, <1>4, <1>8 DEF DigestSaysAll, SaysAll
<1>10. Ordered' BY <1>1 DEF PInv, Ordered, IsSequence
<1>11. NamesWhatMoved' BY <1>1, NamesStay DEF PInv
<1> QED BY <1>9, <1>10, <1>11

\* A leaf that says all of the run has one of the Hub's names for each model that
\* has moved from the state file.
LEMMA NamesAreTruthful ==
  ASSUME PInv, pc # "idle", NEW leaf, SaysAll(leaf)
  PROVE  Promise!Truthful(leaf)
<1> DEFINE thing == [i \in DOMAIN changed |-> changed[i].model]
<1>1. prev = state /\ Named = Moved BY DEF PInv, Inv, Running, NamesWhatMoved
<1>2. Promise!Moved(state, leaf.set) = Moved BY <1>1 DEF SaysAll, Moved, Promise!Moved
<1>3. DOMAIN leaf.changed = DOMAIN changed /\ \A k \in DOMAIN changed : leaf.changed[k] = changed[k].id
      BY DEF SaysAll, ChangedIds
<1>4. thing \in Promise!Bijection(DOMAIN changed, Moved)
  <2>1. thing \in [DOMAIN changed -> Moved] BY <1>1 DEF Named
  <2>2. \A i, j \in DOMAIN changed : thing[i] = thing[j] => i = j BY DEF PInv, NamesWhatMoved
  <2>3. thing \in Promise!Injection(DOMAIN changed, Moved)
        BY <2>1, <2>2 DEF Promise!Injection, Promise!IsInjective
  <2>4. \A m \in Moved : \E i \in DOMAIN changed : thing[i] = m BY <1>1 DEF Named
  <2>5. thing \in Promise!Surjection(DOMAIN changed, Moved)
        BY <2>1, <2>4 DEF Promise!Surjection
  <2> QED BY <2>3, <2>5 DEF Promise!Bijection
<1>5. \A k \in DOMAIN changed : changed[k].id \in MayBeNamed[thing[k]] BY DEF PInv, NamesWhatMoved
<1> HIDE DEF thing
<1> QED BY <1>2, <1>3, <1>4, <1>5 DEF Promise!Truthful

\* An append puts on the record the digest of the run, or nothing.
LEMMA AppendPromise ==
  ASSUME PInv, pc = "submit", queue # << >>, log' = Append(log, Head(queue)),
         state' = state
  PROVE  /\ Head(queue) = queue[1]
         /\ \/ OnRecord' = OnRecord /\ queue[1].kind # "digest"
            \/ OnRecord' = OnRecord \cup {Entry(queue[1])} /\ SaysAll(queue[1])
         /\ [Promise!Next]_<<OnRecord, state>>
<1>1. IsSequence(log) /\ IsSequence(queue) /\ prev = state BY DEF PInv, Inv, Running
<1>2. Head(queue) = queue[1] /\ 1 \in DOMAIN queue BY <1>1, TailOfSequence
<1>3. /\ queue[1].kind = "digest" => OnRecord' = OnRecord \cup {Entry(queue[1])}
      /\ queue[1].kind # "digest" => OnRecord' = OnRecord
      BY <1>1, <1>2, RecordGrows
<1>4. queue[1].kind = "digest" => SaysAll(queue[1]) BY <1>2 DEF PInv, DigestSaysAll
<1>5. CASE queue[1].kind # "digest" BY <1>2, <1>3, <1>5
<1>6. CASE queue[1].kind = "digest"
  <2>1. SaysAll(Entry(queue[1])) BY <1>4, <1>6 DEF Entry, SaysAll
  <2>2. Promise!Truthful(Entry(queue[1])) BY <2>1, NamesAreTruthful
  <2>3. Promise!Record BY <1>3, <1>6, <2>2 DEF Promise!Record
  <2> QED BY <1>2, <1>3, <1>4, <1>6, <2>3 DEF Promise!Next
<1> QED BY <1>5, <1>6

LEMMA SubmitPromise ==
  ASSUME PInv, Submit PROVE Ordered' /\ NamesWhatMoved' /\ DigestSaysAll'
<1>1. /\ pc = "submit" /\ pc' = "submit" /\ queue # << >>
      /\ log' = Append(log, Head(queue)) /\ queue' = Tail(queue)
      /\ UNCHANGED <<state, prev, todo, observed, changed>>
      BY DEF Submit
<1>2. IsSequence(queue) BY DEF PInv, Inv
<1>3. \A i \in DOMAIN queue' : i + 1 \in DOMAIN queue /\ queue'[i] = queue[i + 1]
      BY <1>1, <1>2, TailIsOfSequence
<1>4. \/ OnRecord' = OnRecord /\ queue[1].kind # "digest"
      \/ OnRecord' = OnRecord \cup {Entry(queue[1])} /\ SaysAll(queue[1])
      BY <1>1, AppendPromise
<1>5. \E leaf \in OnRecord' : SaysAll(leaf)
  <2>1. CASE OnRecord' = OnRecord /\ queue[1].kind # "digest"
        BY <1>1, <2>1 DEF PInv, DigestSaysAll, Recorded
  <2>2. CASE OnRecord' = OnRecord \cup {Entry(queue[1])} /\ SaysAll(queue[1])
    <3>1. SaysAll(Entry(queue[1])) BY <2>2 DEF SaysAll, Entry
    <3> QED BY <2>2, <3>1
  <2> QED BY <1>4, <2>1, <2>2
<1>6. Recorded' BY <1>1, <1>5 DEF Recorded, SaysAll, ChangedIds
<1>7. \A i \in DOMAIN queue' : queue'[i].kind = "digest" => SaysAll(queue'[i])
      BY <1>1, <1>3 DEF PInv, DigestSaysAll
<1>8. \A i \in DOMAIN queue' : queue'[i].kind = "digest" =>
        queue'[i].set = observed' /\ queue'[i].changed = ChangedIds'
      BY <1>1, <1>7 DEF SaysAll, ChangedIds
<1>9. DigestSaysAll' BY <1>1, <1>6, <1>8 DEF DigestSaysAll, SaysAll
<1>10. Ordered' BY <1>1 DEF PInv, Ordered, IsSequence
<1>11. NamesWhatMoved' BY <1>1, NamesStay DEF PInv
<1> QED BY <1>9, <1>10, <1>11

\* Steps that leave the record, what has been observed and the queue alone.
LEMMA QuietPromise ==
  ASSUME PInv, UNCHANGED <<log, prev, observed, changed, queue>>,
         \/ pc' = pc /\ todo' = todo
         \/ pc = "meta" /\ pc' = "card" /\ todo # << >> /\ todo' = todo
         \/ /\ pc \in {"meta", "card"} /\ pc' = "meta"
            /\ todo # << >> /\ todo' = Tail(todo)
         \/ pc = "submit" /\ pc' = "save" /\ queue = << >> /\ todo' = todo
  PROVE  Ordered' /\ NamesWhatMoved' /\ DigestSaysAll'
<1>1. Ordered'
  <2>1. CASE todo' = todo BY <2>1 DEF PInv, Ordered, IsSequence
  <2>2. CASE todo # << >> /\ todo' = Tail(todo) /\ pc \in {"meta", "card"}
        BY <2>2, TailOrdered DEF PInv, Ordered
  <2> QED BY <2>1, <2>2
<1>2. NamesWhatMoved' BY NamesStay DEF PInv
<1>3. OnRecord' = OnRecord /\ ChangedIds' = ChangedIds BY RecordStays DEF ChangedIds
<1>4. (Recorded => Recorded') BY <1>3 DEF Recorded, SaysAll
<1>5. DigestSaysAll' BY <1>3, <1>4 DEF PInv, DigestSaysAll, SaysAll
<1> QED BY <1>1, <1>2, <1>5

LEMMA StepPInv == ASSUME MayDryRun = FALSE, PInv, [Next]_vars PROVE PInv'
<1> SUFFICES Ordered' /\ NamesWhatMoved' /\ DigestSaysAll'
    BY StepInv, StepTypes DEF PInv
<1>1. CASE HubMoves BY <1>1, QuietPromise DEF HubMoves, memory
<1>2. CASE Start BY <1>2, StartPromise DEF PInv
<1>3. CASE GetMeta BY <1>3, QuietPromise DEF GetMeta
<1>4. CASE GetCard BY <1>4, ObservePromise DEF GetCard
<1>5. CASE CardRefused BY <1>5, ObservePromise DEF CardRefused
<1>6. CASE FetchFails BY <1>6, QuietPromise DEF FetchFails
<1>7. CASE Queue BY <1>7, QueuePromise
<1>8. CASE Submit BY <1>8, SubmitPromise
<1>9. CASE SubmitFails BY <1>9, EndPromise DEF SubmitFails
<1>10. CASE SubmitUnanswered BY <1>10, EndPromise DEF SubmitUnanswered
<1>11. CASE AllSubmitted BY <1>11, QuietPromise DEF AllSubmitted, memory
<1>12. CASE Save BY <1>12, EndPromise DEF Save
<1>13. CASE Killed BY <1>13, EndPromise DEF Killed
<1>14. CASE SortRaises BY <1>14, EndPromise DEF SortRaises
<1>15. CASE UNCHANGED vars BY <1>15, QuietPromise DEF vars, memory
<1> QED BY <1>1, <1>2, <1>3, <1>4, <1>5, <1>6, <1>7, <1>8, <1>9, <1>10, <1>11,
           <1>12, <1>13, <1>14, <1>15 DEF Next

LEMMA StepPromise ==
  ASSUME PInv, [Next]_vars PROVE [Promise!Next]_<<OnRecord, state>>
<1>1. CASE Submit BY <1>1, AppendPromise DEF Submit
<1>2. CASE SubmitUnanswered BY <1>2, AppendPromise DEF SubmitUnanswered
<1>3. CASE Save
  <2>1. pc = "save" /\ state' = observed /\ log' = log /\ prev = state
        BY <1>3 DEF Save, PInv, Inv, Running
  <2>2. PICK leaf \in OnRecord : SaysAll(leaf) BY <2>1 DEF PInv, DigestSaysAll, Recorded
  <2>3. Promise!Truthful(leaf) /\ state' = leaf.set
        BY <2>1, <2>2, NamesAreTruthful DEF SaysAll
  <2>4. Promise!Adopt BY <2>1, <2>2, <2>3, RecordStays DEF Promise!Adopt
  <2> QED BY <2>4 DEF Promise!Next
<1>4. ASSUME ~Submit, ~SubmitUnanswered, ~Save PROVE UNCHANGED <<OnRecord, state>>
  <2>1. log' = log /\ state' = state
        BY <1>4 DEF Next, vars, HubMoves, Start, GetMeta, GetCard, CardRefused, Observe,
                    FetchFails, Queue, SortRaises, SubmitFails, AllSubmitted, Killed
  <2> QED BY <2>1, RecordStays
<1> QED BY <1>1, <1>2, <1>3, <1>4

\* Through every failure, lost answer and kill, what the watcher compares with next
\* is what a digest in the log covers, and every digest has a name of the Hub's for
\* each model that had moved from it, and no name more: HFWatch implements
\* Observations (hf_watch.py:99-125).
THEOREM ImplementsObservations ==
  ASSUME MayDryRun = FALSE PROVE Spec => RecordedBeforeAdopted
<1>1. PInv /\ [Next]_vars => PInv' BY StepPInv
<1>2. PInv /\ [Next]_vars => [Promise!Next]_<<OnRecord, state>> BY StepPromise
<1> QED BY InitPromise, <1>1, <1>2, PTL DEF Spec, RecordedBeforeAdopted, Promise!Spec

-----------------------------------------------------------------------------
(* Fingerprints.                                                           *)

Fits(fp)    == fp.sha # NoSha => fp.card \in {fp.sha, Unavailable}
AllFit(set) == \A m \in DOMAIN set : Fits(set[m])

\* Everything that has been observed fits, wherever it is on its way to the log.
CardInv ==
  /\ IsSequence(log) /\ IsSequence(changed) /\ IsSequence(queue)
  /\ \A i \in DOMAIN changed : changed[i].kind = "detail"
  /\ AllFit(observed)
  /\ \A i \in DOMAIN queue : queue[i].kind = "digest" => AllFit(queue[i].set)
  /\ \A i \in DOMAIN log : log[i].kind = "digest" => AllFit(log[i].set)

LEMMA CardInvSays == CardInv => CardBelongsToSha
BY DEF CardInv, CardBelongsToSha, Digests, AllFit, Fits

LEMMA NothingFits == AllFit(Nothing)
BY DEF AllFit, Nothing

LEMMA InitCard == Init => CardInv
<1> SUFFICES ASSUME Init PROVE CardInv OBVIOUS
<1>1. log = << >> /\ changed = << >> /\ queue = << >> /\ observed = Nothing BY DEF Init
<1>2. DOMAIN (<< >>) = {} OBVIOUS
<1> QED BY <1>1, <1>2, EmptySequence, NothingFits DEF CardInv

LEMMA ObserveCard ==
  ASSUME CardInv, NEW card, Observe(card), meta.sha # NoSha => card \in {meta.sha, Unavailable}
  PROVE  CardInv'
<1> DEFINE m  == Head(todo)
           fp == [sha |-> meta.sha, card |-> card, hidden |-> meta.hidden]
           leaf == DetailLeaf(run, m, meta.id, fp, prev[m])
<1>1. /\ observed' = [x \in DOMAIN observed \cup {m} |-> IF x = m THEN fp ELSE observed[x]]
      /\ changed' = changed \/ changed' = Append(changed, leaf)
      /\ log' = log /\ queue' = queue
      BY DEF Observe
<1>2. Fits(fp) BY DEF Fits
<1>3. leaf.kind = "detail" BY DEF DetailLeaf
<1> HIDE DEF fp, m, leaf
<1>4. AllFit(observed')
  <2> SUFFICES ASSUME NEW x \in DOMAIN observed' PROVE Fits(observed'[x]) BY DEF AllFit
  <2>1. CASE x = m
    <3>1. observed'[x] = fp BY <1>1, <2>1
    <3> QED BY <1>2, <3>1 DEF Fits
  <2>2. CASE x # m
    <3>1. x \in DOMAIN observed /\ observed'[x] = observed[x] BY <1>1, <2>2
    <3>2. Fits(observed[x]) BY <3>1 DEF CardInv, AllFit
    <3> QED BY <3>1, <3>2 DEF Fits
  <2> QED BY <2>1, <2>2
<1>5. IsSequence(changed)' /\ \A i \in DOMAIN changed' : changed'[i].kind = "detail"
  <2>1. CASE changed' = changed BY <2>1 DEF CardInv, IsSequence
  <2>2. CASE changed' = Append(changed, leaf)
    <3>1. IsSequence(changed) BY DEF CardInv
    <3>2. IsSequence(Append(changed, leaf)) BY <3>1, AppendToSequence
    <3>3. \A i \in DOMAIN changed' : (i \in DOMAIN changed /\ changed'[i] = changed[i])
                                     \/ changed'[i] = leaf
          BY <2>2, <3>1, AppendAddsOne
    <3> QED BY <2>2, <1>3, <3>2, <3>3 DEF CardInv, IsSequence
  <2> QED BY <1>1, <2>1, <2>2
<1> QED BY <1>1, <1>4, <1>5 DEF CardInv, IsSequence, AllFit, Fits

LEMMA QueueCard == ASSUME CardInv, Queue PROVE CardInv'
<1>1. /\ queue' = <<Digest>> \o changed /\ UNCHANGED <<log, observed, changed>>
      BY DEF Queue
<1>2. IsSequence(queue)' BY <1>1, PrefixedSequence DEF CardInv, IsSequence
<1>3. Digest.kind = "digest" /\ Digest.set = observed BY DEF Digest, DigestLeaf
<1>4. \A i \in DOMAIN queue' : queue'[i] = Digest \/ \E j \in DOMAIN changed : queue'[i] = changed[j]
      BY <1>1, PrefixedIsOfSequence DEF CardInv
<1>5. \A i \in DOMAIN queue' : queue'[i].kind = "digest" => AllFit(queue'[i].set)
      BY <1>3, <1>4 DEF CardInv
<1> QED BY <1>1, <1>2, <1>5 DEF CardInv, IsSequence, AllFit, Fits

LEMMA AppendCard ==
  ASSUME CardInv, queue # << >>, log' = Append(log, Head(queue))
  PROVE  /\ IsSequence(log)' /\ IsSequence(Tail(queue))
         /\ \A i \in DOMAIN log' : log'[i].kind = "digest" => AllFit(log'[i].set)
         /\ \A i \in DOMAIN Tail(queue) :
              Tail(queue)[i].kind = "digest" => AllFit(Tail(queue)[i].set)
<1>1. IsSequence(log) /\ IsSequence(queue) BY DEF CardInv
<1>2. IsSequence(Tail(queue)) /\ 1 \in DOMAIN queue /\ Head(queue) = queue[1]
      BY <1>1, TailOfSequence
<1>3. \A i \in DOMAIN Tail(queue) : i + 1 \in DOMAIN queue /\ Tail(queue)[i] = queue[i + 1]
      BY <1>1, TailIsOfSequence
<1>4. \A i \in DOMAIN log' : (i \in DOMAIN log /\ log'[i] = log[i]) \/ log'[i] = Head(queue)
      BY <1>1, AppendAddsOne
<1>5. IsSequence(log)' BY <1>1, AppendToSequence DEF IsSequence
<1> QED BY <1>2, <1>3, <1>4, <1>5 DEF CardInv

\* The memory of a process that has ended holds no fingerprint.
LEMMA EndCard ==
  ASSUME NEW how, End(how), IsSequence(log)',
         \A i \in DOMAIN log' : log'[i].kind = "digest" => AllFit(log'[i].set)
  PROVE  CardInv'
<1>1. changed' = << >> /\ queue' = << >> /\ observed' = Nothing
      BY DEF End, EmptyMemory
<1>2. DOMAIN (<< >>) = {} OBVIOUS
<1>3. AllFit(observed)' BY <1>1, NothingFits DEF AllFit, Fits
<1>4. IsSequence(changed)' /\ IsSequence(queue)' BY <1>1, EmptySequence DEF IsSequence
<1> QED BY <1>1, <1>2, <1>3, <1>4 DEF CardInv, AllFit, Fits

LEMMA QuietCard == ASSUME CardInv, UNCHANGED <<log, observed, changed, queue>> PROVE CardInv'
BY DEF CardInv, IsSequence, AllFit, Fits

LEMMA StepCard == ASSUME CardInv, [Next]_vars PROVE CardInv'
<1>1. CASE HubMoves BY <1>1, QuietCard DEF HubMoves, memory
<1>2. CASE Start BY <1>2, QuietCard DEF Start
<1>3. CASE GetMeta BY <1>3, QuietCard DEF GetMeta
<1>4. CASE GetCard BY <1>4, ObserveCard DEF GetCard
<1>5. CASE CardRefused BY <1>5, ObserveCard DEF CardRefused
<1>6. CASE FetchFails BY <1>6, QuietCard DEF FetchFails
<1>7. CASE Queue BY <1>7, QueueCard
<1>8. CASE Submit
  <2>1. queue # << >> /\ log' = Append(log, Head(queue)) /\ queue' = Tail(queue)
        /\ UNCHANGED <<observed, changed>>
        BY <1>8 DEF Submit
  <2> QED BY <2>1, AppendCard DEF CardInv, IsSequence, AllFit, Fits
<1>9. CASE SubmitFails BY <1>9, EndCard DEF SubmitFails, CardInv, IsSequence, AllFit, Fits
<1>10. CASE SubmitUnanswered BY <1>10, EndCard, AppendCard DEF SubmitUnanswered
<1>11. CASE AllSubmitted BY <1>11, QuietCard DEF AllSubmitted, memory
<1>12. CASE Save BY <1>12, EndCard DEF Save, CardInv, IsSequence, AllFit, Fits
<1>13. CASE Killed BY <1>13, EndCard DEF Killed, CardInv, IsSequence, AllFit, Fits
<1>14. CASE SortRaises BY <1>14, EndCard DEF SortRaises, CardInv, IsSequence, AllFit, Fits
<1>15. CASE UNCHANGED vars BY <1>15, QuietCard DEF vars, memory
<1> QED BY <1>1, <1>2, <1>3, <1>4, <1>5, <1>6, <1>7, <1>8, <1>9, <1>10, <1>11,
           <1>12, <1>13, <1>14, <1>15 DEF Next

\* However the Hub moves between the two requests of an observation, no digest in
\* the log has the card of one commit beside the name of another.
THEOREM CardsBelong == Spec => []CardBelongsToSha
<1>1. CardInv /\ [Next]_vars => CardInv' BY StepCard
<1> QED BY InitCard, CardInvSays, <1>1, PTL DEF Spec

-----------------------------------------------------------------------------
(* Digests and details: what a run appends, leaf by leaf.                  *)

\* A detail leaf of the run that is on, as a model that has moved has it.
OfRun(leaf) == leaf.run = run /\ leaf.model \in Moved /\ Says(leaf, leaf.model)

DigestOnce == \A i \in Digests, j \in Digests : log[i].run = log[j].run => i = j

LogInv ==
  /\ run \in Nat /\ \A i \in DOMAIN log : log[i].run \in 0..run
  /\ DigestOnce /\ DetailsAreFramed

\* The digest of the state file is of an earlier run than the one that is on.
StateInv ==
  state # Nothing =>
    \E i \in Digests : log[i].set = state /\ (pc # "idle" => log[i].run < run)

Collecting ==
  /\ pc # "idle" => \A k \in DOMAIN changed : OfRun(changed[k])
  /\ pc \in {"meta", "card"} => \A i \in DOMAIN log : log[i].run # run

\* The leaf a run has to append in the k-th place.
Due(k) == IF k = 1 THEN Digest ELSE changed[k - 1]

\* The last n leaves of the log are the first n that are due, and the run has no
\* other; the queue has those that are still due.
Sent(n) ==
  /\ n \in Nat /\ n <= Len(log) /\ Len(queue) + n = Len(changed) + 1
  /\ \A k \in 1..n : log[(Len(log) - n) + k] = Due(k)
  /\ \A k \in 1..Len(queue) : queue[k] = Due(n + k)
  /\ \A i \in DOMAIN log : i <= Len(log) - n => log[i].run # run

Submitting == pc = "submit" => \E n : Sent(n)

Saving == pc = "save" => Sent(Len(changed) + 1)

Complete ==
  \E i \in Digests :
    /\ log[i].run = run
    /\ \E of \in Bijection(DOMAIN log[i].changed, {j \in Details : log[j].run = run}) :
         \A k \in DOMAIN log[i].changed : log[i].changed[k] = log[of[k]].id

Ended == rc = "ok" => pc = "idle" /\ Complete

RInv == PInv /\ LogInv /\ StateInv /\ Collecting /\ Submitting /\ Saving /\ Ended

LEMMA RecordInit == Init => LogInv /\ StateInv /\ Collecting /\ Submitting /\ Saving /\ Ended
<1> SUFFICES ASSUME Init PROVE LogInv /\ StateInv /\ Collecting /\ Submitting /\ Saving /\ Ended
    OBVIOUS
<1>1. log = << >> /\ pc = "idle" /\ state = Nothing /\ run = 0 /\ rc = "none" BY DEF Init
<1>2. DOMAIN (<< >>) = {} OBVIOUS
<1> QED BY <1>1, <1>2 DEF LogInv, DigestOnce, DetailsAreFramed, StateInv, Collecting,
        Submitting, Saving, Ended, Digests, Details

LEMMA Lengths ==
  ASSUME NEW s, IsSequence(s) PROVE Len(s) \in Nat /\ DOMAIN s = 1..Len(s)
<1>1. PICK S : s \in Seq(S) BY DEF IsSequence
<1> QED BY <1>1

\* A log that stays as it is, with the run.
LEMMA LogStays ==
  ASSUME LogInv, UNCHANGED <<log, run>>
  PROVE  LogInv' /\ Digests' = Digests /\ (Complete => Complete')
<1>1. Digests' = Digests /\ Details' = Details BY DEF Digests, Details
<1>2. LogInv' BY <1>1 DEF LogInv, DigestOnce, DetailsAreFramed
<1>3. ASSUME Complete PROVE Complete'
  <2> DEFINE D == {j \in Details : log[j].run = run}
  <2>0. PICK i \in Digests :
          /\ log[i].run = run
          /\ \E of \in Bijection(DOMAIN log[i].changed, D) :
               \A k \in DOMAIN log[i].changed : log[i].changed[k] = log[of[k]].id
        BY <1>3 DEF Complete
  <2>1. PICK of \in Bijection(DOMAIN log[i].changed, D) :
          \A k \in DOMAIN log[i].changed : log[i].changed[k] = log[of[k]].id
        BY <2>0
  <2>2. {j \in Details' : log'[j].run = run'} = D BY <1>1
  <2>3. i \in Digests' /\ log'[i] = log[i] /\ \A j : log'[j] = log[j] BY <1>1
  <2> HIDE DEF D
  <2>4. of \in Bijection(DOMAIN log'[i].changed, {j \in Details' : log'[j].run = run'})
        BY <2>1, <2>2, <2>3
  <2> QED BY <2>0, <2>1, <2>3, <2>4 DEF Complete
<1> QED BY <1>1, <1>2, <1>3

\* The end of a run, whatever it came from.
LEMMA EndRecord ==
  ASSUME NEW how, End(how), how # "ok", LogInv', StateInv' PROVE
    LogInv' /\ StateInv' /\ Collecting' /\ Submitting' /\ Saving' /\ Ended'
BY DEF End, Collecting, Submitting, Saving, Ended

LEMMA StartRecord ==
  ASSUME RInv, Start
  PROVE  LogInv' /\ StateInv' /\ Collecting' /\ Submitting' /\ Saving' /\ Ended'
<1>1. /\ pc = "idle" /\ pc' = "meta" /\ run' = run + 1 /\ rc' = "none"
      /\ UNCHANGED <<log, state, changed>>
      BY DEF Start
<1>2. run \in Nat /\ \A i \in DOMAIN log : log[i].run \in 0..run BY DEF RInv, LogInv
<1>3. run' \in Nat /\ \A i \in DOMAIN log : log[i].run \in 0..run' /\ log[i].run < run'
      BY <1>1, <1>2
<1>4. Digests' = Digests /\ Details' = Details BY <1>1 DEF Digests, Details
<1>5. LogInv' BY <1>1, <1>3, <1>4 DEF RInv, LogInv, DigestOnce, DetailsAreFramed
<1>6. StateInv' BY <1>1, <1>3, <1>4 DEF RInv, StateInv, Digests
<1>7. Collecting'
  <2>1. DOMAIN changed = {} BY <1>1 DEF RInv, PInv, Inv, Idle
  <2>2. \A i \in DOMAIN log : log[i].run # run' BY <1>3, <1>2
  <2> QED BY <1>1, <2>1, <2>2 DEF Collecting
<1> QED BY <1>1, <1>5, <1>6, <1>7 DEF Submitting, Saving, Ended

\* A model observed for the first time changes nothing of what was found before.
LEMMA ObserveRecord ==
  ASSUME RInv, pc = "card", NEW card, Observe(card)
  PROVE  LogInv' /\ StateInv' /\ Collecting' /\ Submitting' /\ Saving' /\ Ended'
<1> DEFINE m  == Head(todo)
           fp == [sha |-> meta.sha, card |-> card, hidden |-> meta.hidden]
           leaf == DetailLeaf(run, m, meta.id, fp, prev[m])
<1>1. /\ observed' = [x \in DOMAIN observed \cup {m} |-> IF x = m THEN fp ELSE observed[x]]
      /\ changed' = IF m \in DOMAIN prev /\ prev[m] # fp THEN Append(changed, leaf) ELSE changed
      /\ pc' = "meta" /\ UNCHANGED <<prev, log, state, run, rc>>
      BY DEF Observe
<1>2. /\ leaf.kind = "detail" /\ leaf.model = m /\ leaf.run = run
      /\ leaf.fp = fp /\ leaf.was = prev[m]
      BY DEF DetailLeaf
<1>3. m \notin DOMAIN observed
  <2>1. todo # << >> /\ IsSequence(todo) BY DEF RInv, PInv, Ordered
  <2>2. 1 \in DOMAIN todo /\ m = todo[1] BY <2>1, TailOfSequence
  <2> QED BY <2>2 DEF RInv, PInv, Ordered
<1> HIDE DEF m, fp, leaf
<1>4. LogInv' /\ Digests' = Digests BY <1>1, LogStays DEF RInv
<1>5. StateInv' BY <1>1, <1>4 DEF RInv, StateInv
<1>6. \A x \in DOMAIN observed : x \in DOMAIN observed' /\ observed'[x] = observed[x] /\ x # m
      BY <1>1, <1>3
<1>7. Moved \subseteq Moved' /\ Moved \subseteq DOMAIN observed BY <1>1, <1>6 DEF Moved
<1>8. ASSUME NEW x, OfRun(x) PROVE OfRun(x)'
  <2>1. x.model \in DOMAIN observed BY <1>7, <1>8 DEF OfRun
  <2> QED BY <1>1, <1>6, <1>7, <1>8, <2>1 DEF OfRun, Says
<1>9. IsSequence(changed) BY DEF RInv, PInv, Inv
<1>10. \A k \in DOMAIN changed : OfRun(changed[k])
       BY DEF RInv, Collecting
<1>11. ASSUME NEW k \in DOMAIN changed' PROVE OfRun(changed[k])'
  <2>1. CASE k \in DOMAIN changed /\ changed'[k] = changed[k]
    <3>1. OfRun(changed[k]) BY <1>10, <2>1
    <3> QED BY <1>8, <2>1, <3>1 DEF OfRun, Says
  <2>2. CASE changed'[k] = leaf /\ m \in DOMAIN prev /\ prev[m] # fp
    <3>1. m \in Moved' BY <1>1, <2>2 DEF Moved
    <3>2. observed'[m] = fp BY <1>1
    <3> QED BY <1>1, <1>2, <2>2, <3>1, <3>2 DEF OfRun, Says
  <2>3. \/ k \in DOMAIN changed /\ changed'[k] = changed[k]
        \/ changed'[k] = leaf /\ m \in DOMAIN prev /\ prev[m] # fp
    <3>1. CASE m \in DOMAIN prev /\ prev[m] # fp BY <1>1, <1>9, <3>1, AppendAddsOne
    <3>2. CASE ~(m \in DOMAIN prev /\ prev[m] # fp) BY <1>1, <3>2
    <3> QED BY <3>1, <3>2
  <2> QED BY <2>1, <2>2, <2>3
<1>12. Collecting' BY <1>1, <1>11 DEF RInv, Collecting
<1>13. Ended' BY <1>1 DEF RInv, Ended
<1> QED BY <1>1, <1>4, <1>5, <1>12, <1>13 DEF Submitting, Saving

\* What is due does not change once everything has been observed.
LEMMA DueStays ==
  ASSUME UNCHANGED <<run, observed, changed, failed>> PROVE \A k : Due(k)' = Due(k)
<1>1. Digest' = Digest BY DEF Digest, DigestLeaf, ChangedIds
<1> QED BY <1>1 DEF Due

LEMMA OfRunStays ==
  ASSUME UNCHANGED <<run, prev, observed>> PROVE \A x : OfRun(x) => OfRun(x)'
BY DEF OfRun, Says, Moved

\* The places of a sequence that something has been put before.
LEMMA PrefixedPlaces ==
  ASSUME NEW s, IsSequence(s), NEW x
  PROVE  /\ Len(<<x>> \o s) = Len(s) + 1
         /\ \A k \in 1..(Len(s) + 1) :
              (<<x>> \o s)[k] = IF k = 1 THEN x ELSE s[k - 1]
<1>1. PICK S : s \in Seq(S) BY DEF IsSequence
<1>2. s \in Seq(S \cup {x}) /\ <<x>> \in Seq(S \cup {x}) BY <1>1
<1> QED BY <1>2

LEMMA QueueRecord ==
  ASSUME RInv, Queue
  PROVE  LogInv' /\ StateInv' /\ Collecting' /\ Submitting' /\ Saving' /\ Ended'
<1>1. /\ pc = "meta" /\ pc' = "submit" /\ queue' = <<Digest>> \o changed
      /\ UNCHANGED <<log, state, run, rc, prev, observed, changed, failed>>
      BY DEF Queue, RInv, PInv, Inv, Running
<1>2. IsSequence(changed) /\ IsSequence(log) BY DEF RInv, PInv, Inv
<1>3. /\ \A i \in DOMAIN log : log[i].run # run
      /\ \A k \in DOMAIN changed : OfRun(changed[k])
      BY <1>1 DEF RInv, Collecting
<1>4. LogInv' /\ Digests' = Digests BY <1>1, LogStays DEF RInv
<1>5. StateInv' BY <1>1, <1>4 DEF RInv, StateInv
<1>6. Collecting' BY <1>1, <1>3, OfRunStays DEF Collecting
<1>7. Len(changed) \in Nat /\ Len(log) \in Nat BY <1>2, Lengths
<1>8. /\ Len(queue') = Len(changed) + 1
      /\ \A k \in 1..(Len(changed) + 1) : queue'[k] = Due(k)
      BY <1>1, <1>2, PrefixedPlaces DEF Due
<1>9. \A k : Due(k)' = Due(k) BY <1>1, DueStays
<1>10. \A k \in 1..Len(queue') : queue'[k] = Due(0 + k)'
  <2> SUFFICES ASSUME NEW k \in 1..Len(queue') PROVE queue'[k] = Due(0 + k)' OBVIOUS
  <2>1. 0 + k = k BY <1>7, <1>8
  <2>2. queue'[k] = Due(0 + k) BY <1>8, <2>1
  <2> QED BY <1>9, <2>2
<1>11. Sent(0)'
  <2>1. \A k \in 1..0 : FALSE OBVIOUS
  <2> QED BY <1>1, <1>3, <1>7, <1>8, <1>10, <2>1 DEF Sent
<1>12. Submitting' BY <1>11 DEF Submitting
<1> QED BY <1>1, <1>4, <1>5, <1>6, <1>12 DEF RInv, Saving, Ended

\* The leaf at the head of the queue: the digest, the first of its run, or a detail
\* whose digest is in the log.
LEMMA HeadIsDue ==
  ASSUME RInv, pc = "submit", queue # << >>, NEW n, Sent(n)
  PROVE  /\ Head(queue) = Due(n + 1) /\ n < Len(changed) + 1
         /\ n = 0 => Head(queue) = Digest /\ \A i \in DOMAIN log : log[i].run # run
         /\ n # 0 => /\ n \in DOMAIN changed /\ Head(queue) = changed[n]
                     /\ \E j \in DOMAIN log : log[j] = Digest
<1>1. IsSequence(log) /\ IsSequence(queue) /\ IsSequence(changed) BY DEF RInv, PInv, Inv
<1>2. 1 \in DOMAIN queue /\ Head(queue) = queue[1] BY <1>1, TailOfSequence
<1>3. /\ Len(log) \in Nat /\ DOMAIN log = 1..Len(log)
      /\ Len(queue) \in Nat /\ DOMAIN queue = 1..Len(queue)
      /\ Len(changed) \in Nat /\ DOMAIN changed = 1..Len(changed)
      BY <1>1, Lengths
<1>4. n \in Nat /\ n <= Len(log) /\ Len(queue) + n = Len(changed) + 1 BY DEF Sent
<1>5. Len(queue) >= 1 /\ 1 \in 1..Len(queue) BY <1>2, <1>3
<1>6. queue[1] = Due(n + 1) BY <1>5 DEF Sent
<1>7. n < Len(changed) + 1 BY <1>3, <1>4, <1>5
<1>8. ASSUME n = 0 PROVE Head(queue) = Digest /\ \A i \in DOMAIN log : log[i].run # run
  <2>1. n + 1 = 1 BY <1>8
  <2>2. Due(n + 1) = Digest BY <2>1 DEF Due
  <2>3. \A i \in DOMAIN log : i <= Len(log) - n BY <1>3, <1>8
  <2> QED BY <1>2, <1>6, <2>2, <2>3 DEF Sent
<1>9. ASSUME n # 0 PROVE /\ n \in DOMAIN changed /\ Head(queue) = changed[n]
                         /\ \E j \in DOMAIN log : log[j] = Digest
  <2>1. n + 1 # 1 /\ (n + 1) - 1 = n /\ n \in 1..Len(changed) BY <1>3, <1>4, <1>7, <1>9
  <2>2. Due(n + 1) = changed[n] BY <2>1 DEF Due
  <2>3. 1 \in 1..n /\ (Len(log) - n) + 1 \in 1..Len(log) BY <1>3, <1>4, <1>9
  <2>4. log[(Len(log) - n) + 1] = Due(1) BY <2>3 DEF Sent
  <2>5. Due(1) = Digest BY DEF Due
  <2> QED BY <1>2, <1>3, <1>6, <2>1, <2>2, <2>3, <2>4, <2>5
<1> QED BY <1>2, <1>6, <1>7, <1>8, <1>9

\* The append of a leaf of the run, whether or not its answer comes back.
LEMMA AppendRecord ==
  ASSUME RInv, pc = "submit", queue # << >>, log' = Append(log, Head(queue)),
         run' = run, state' = state
  PROVE  LogInv' /\ StateInv'
<1> DEFINE p == Len(log) + 1
           x == Head(queue)
<1>1. IsSequence(log) /\ IsSequence(changed) /\ prev = state BY DEF RInv, PInv, Inv, Running
<1>2. /\ DOMAIN log' = DOMAIN log \cup {p} /\ log'[p] = x
      /\ \A i \in DOMAIN log : i < p /\ log'[i] = log[i]
      BY <1>1, AppendPlaces
<1>3. PICK n : Sent(n) BY DEF RInv, Submitting
<1>4. /\ n = 0 => x = Digest /\ \A i \in DOMAIN log : log[i].run # run
      /\ n # 0 => /\ n \in DOMAIN changed /\ x = changed[n]
                  /\ \E j \in DOMAIN log : log[j] = Digest
      BY <1>3, HeadIsDue
<1> HIDE DEF p, x
<1>5. n # 0 => OfRun(x) BY <1>4 DEF RInv, Collecting
<1>6. Digest.kind = "digest" /\ Digest.run = run /\ Digest.set = observed /\ Digest.changed = ChangedIds
      BY DEF Digest, DigestLeaf
<1>7. /\ x.run = run
      /\ x.kind = "digest" => \A i \in DOMAIN log : log[i].run # run
      /\ x.kind = "detail" => n # 0
      BY <1>4, <1>5, <1>6 DEF OfRun, Says
<1>8. run \in Nat /\ \A i \in DOMAIN log : log[i].run \in 0..run BY DEF RInv, LogInv
<1>9. \A i \in DOMAIN log' : log'[i].run \in 0..run' BY <1>2, <1>7, <1>8
<1>10. DigestOnce'
  <2> SUFFICES ASSUME NEW i \in Digests', NEW j \in Digests', log'[i].run = log'[j].run
               PROVE  i = j
      BY DEF DigestOnce
  <2>1. CASE i \in DOMAIN log /\ j \in DOMAIN log
        BY <1>2, <2>1 DEF Digests, RInv, LogInv, DigestOnce
  <2>2. CASE i = p /\ j \in DOMAIN log BY <1>2, <1>7, <2>2 DEF Digests
  <2>3. CASE j = p /\ i \in DOMAIN log BY <1>2, <1>7, <2>3 DEF Digests
  <2> QED BY <1>2, <2>1, <2>2, <2>3 DEF Digests
<1>11. Digests \subseteq Digests' BY <1>2 DEF Digests
<1>12. DetailsAreFramed'
  <2> SUFFICES ASSUME NEW i \in Details'
               PROVE  /\ \E j \in Digests' : /\ j < i /\ log'[j].run = log'[i].run
                                             /\ log'[i].id \in ToSet(log'[j].changed)
                                             /\ log'[i].model \in DOMAIN log'[j].set
                                             /\ log'[j].set[log'[i].model] = log'[i].fp
                      /\ \E j \in Digests' : /\ j < i /\ log'[j].run < log'[i].run
                                             /\ log'[i].model \in DOMAIN log'[j].set
                                             /\ log'[j].set[log'[i].model] = log'[i].was
      BY DEF DetailsAreFramed, ToSet
  <2>1. CASE i \in DOMAIN log
    <3>1. i \in Details /\ log'[i] = log[i] BY <1>2, <2>1 DEF Details
    <3>2. PICK j \in Digests : /\ j < i /\ log[j].run = log[i].run
                               /\ log[i].id \in ToSet(log[j].changed)
                               /\ log[i].model \in DOMAIN log[j].set
                               /\ log[j].set[log[i].model] = log[i].fp
          BY <3>1 DEF RInv, LogInv, DetailsAreFramed
    <3>3. PICK h \in Digests : /\ h < i /\ log[h].run < log[i].run
                               /\ log[i].model \in DOMAIN log[h].set
                               /\ log[h].set[log[i].model] = log[i].was
          BY <3>1 DEF RInv, LogInv, DetailsAreFramed
    <3>4. log'[j] = log[j] /\ log'[h] = log[h] BY <1>2 DEF Digests
    <3>5. j \in Digests' /\ h \in Digests' BY <1>11
    <3> QED BY <3>1, <3>2, <3>3, <3>4, <3>5
  <2>2. CASE i = p
    <3>1. log'[i] = x /\ x.kind = "detail" BY <1>2, <2>2 DEF Details
    <3>2. n \in DOMAIN changed /\ x = changed[n] /\ OfRun(x) BY <1>4, <1>5, <1>7, <3>1
    <3>3. x.model \in Moved /\ x.fp = observed[x.model] /\ x.was = state[x.model]
          BY <1>1, <3>2 DEF OfRun, Says
    <3>4. x.model \in DOMAIN observed /\ x.model \in DOMAIN state BY <1>1, <3>3 DEF Moved
    <3>5. PICK j \in DOMAIN log : log[j] = Digest BY <1>4, <1>7, <3>1
    <3>6. x.id \in ToSet(ChangedIds)
      <4>1. n \in DOMAIN ChangedIds /\ ChangedIds[n] = x.id BY <3>2 DEF ChangedIds
      <4> QED BY <4>1 DEF ToSet
    <3>7. state # Nothing BY <3>4 DEF Nothing
    <3>8. PICK h \in Digests : log[h].set = state /\ log[h].run < run
          BY <3>7 DEF RInv, StateInv
    <3>9. j < i /\ h < i /\ log'[j] = log[j] /\ log'[h] = log[h] BY <1>2, <2>2 DEF Digests
    <3>10. j \in Digests' /\ h \in Digests' BY <1>6, <1>11, <3>5 DEF Digests
    <3> QED BY <1>6, <1>7, <3>1, <3>3, <3>4, <3>5, <3>6, <3>8, <3>9, <3>10
  <2> QED BY <1>2, <2>1, <2>2 DEF Details
<1>13. StateInv'
  <2>1. ASSUME state # Nothing PROVE \E i \in Digests' : log'[i].set = state /\ log'[i].run < run
    <3>1. PICK i \in Digests : log[i].set = state /\ log[i].run < run
          BY <2>1 DEF RInv, StateInv
    <3>2. log'[i] = log[i] BY <1>2 DEF Digests
    <3> QED BY <1>11, <3>1, <3>2
  <2> QED BY <2>1 DEF StateInv, Nothing
<1> QED BY <1>8, <1>9, <1>10, <1>12, <1>13 DEF LogInv

\* A leaf goes from the queue to the log, and the rest of the queue is still due.
LEMMA SubmitRecord ==
  ASSUME RInv, Submit
  PROVE  LogInv' /\ StateInv' /\ Collecting' /\ Submitting' /\ Saving' /\ Ended'
<1> DEFINE L == Len(log)
           Q == Len(queue)
           C == Len(changed)
<1>1. /\ pc = "submit" /\ pc' = "submit" /\ queue # << >>
      /\ log' = Append(log, Head(queue)) /\ queue' = Tail(queue)
      /\ UNCHANGED <<state, run, rc, prev, observed, changed, failed>>
      BY DEF Submit
<1>2. LogInv' /\ StateInv' BY <1>1, AppendRecord
<1>3. IsSequence(log) /\ IsSequence(queue) /\ IsSequence(changed) BY DEF RInv, PInv, Inv
<1>4. /\ L \in Nat /\ DOMAIN log = 1..L /\ Q \in Nat /\ DOMAIN queue = 1..Q /\ C \in Nat
      BY <1>3, Lengths
<1>5. PICK n : Sent(n) BY <1>1 DEF RInv, Submitting
<1>6. n \in Nat /\ n <= L /\ Q + n = C + 1 /\ n < C + 1 BY <1>1, <1>5, HeadIsDue DEF Sent
<1>7. /\ DOMAIN log' = DOMAIN log \cup {L + 1} /\ log'[L + 1] = Due(n + 1)
      /\ \A i \in DOMAIN log : log'[i] = log[i]
      BY <1>1, <1>3, <1>5, AppendPlaces, HeadIsDue
<1>8. Len(log') = L + 1 /\ Len(queue') = Q - 1 /\ \A k \in 1..(Q - 1) : queue'[k] = queue[k + 1]
  <2>1. PICK S : log \in Seq(S) BY <1>3 DEF IsSequence
  <2>2. log \in Seq(S \cup {Head(queue)}) BY <2>1
  <2>3. PICK T : queue \in Seq(T) BY <1>3 DEF IsSequence
  <2> QED BY <1>1, <2>2, <2>3
<1>9. \A k : Due(k)' = Due(k) BY <1>1, DueStays
<1>10. /\ \A k \in 1..n : log[(L - n) + k] = Due(k)
       /\ \A k \in 1..Q : queue[k] = Due(n + k)
       /\ \A i \in DOMAIN log : i <= L - n => log[i].run # run
       BY <1>5 DEF Sent
<1> HIDE DEF L, Q, C
<1>11. n + 1 \in Nat /\ n + 1 <= L + 1 /\ (Q - 1) + (n + 1) = C + 1 /\ (L + 1) - (n + 1) = L - n
       BY <1>4, <1>6
<1>12. \A k \in 1..(n + 1) : log'[(L - n) + k] = Due(k)
  <2> SUFFICES ASSUME NEW k \in 1..(n + 1) PROVE log'[(L - n) + k] = Due(k) OBVIOUS
  <2>1. CASE k = n + 1
    <3>1. (L - n) + k = L + 1 BY <1>4, <1>6, <2>1
    <3> QED BY <1>7, <2>1, <3>1
  <2>2. CASE k # n + 1
    <3>1. k \in 1..n /\ (L - n) + k \in 1..L BY <1>4, <1>6, <2>2
    <3> QED BY <1>4, <1>7, <1>10, <3>1
  <2> QED BY <2>1, <2>2
<1>13. \A k \in 1..(Q - 1) : queue'[k] = Due((n + 1) + k)
  <2> SUFFICES ASSUME NEW k \in 1..(Q - 1) PROVE queue'[k] = Due((n + 1) + k) OBVIOUS
  <2>1. k + 1 \in 1..Q /\ (n + 1) + k = n + (k + 1) BY <1>4, <1>6
  <2>2. queue[k + 1] = Due(n + (k + 1)) BY <1>10, <2>1
  <2> QED BY <1>8, <2>1, <2>2
<1>14. \A i \in DOMAIN log' : i <= L - n => log'[i].run # run
  <2> SUFFICES ASSUME NEW i \in DOMAIN log', i <= L - n PROVE log'[i].run # run OBVIOUS
  <2>1. ~(L + 1 <= L - n) BY <1>4, <1>6
  <2>2. i \in DOMAIN log BY <1>7, <2>1
  <2> QED BY <1>7, <1>10, <2>2
<1>15. Sent(n + 1)'
  <2>1. \A k \in 1..(n + 1) : log'[(L - n) + k] = Due(k)' BY <1>9, <1>12
  <2>2. \A k \in 1..(Q - 1) : queue'[k] = Due((n + 1) + k)' BY <1>9, <1>13
  <2>3. Len(changed') = C BY <1>1 DEF C
  <2> QED BY <1>1, <1>8, <1>11, <1>14, <2>1, <2>2, <2>3 DEF Sent
<1>16. Submitting' BY <1>15 DEF Submitting
<1>17. Collecting' BY <1>1, OfRunStays DEF RInv, Collecting
<1>18. Ended' BY <1>1 DEF RInv, Ended
<1> QED BY <1>1, <1>2, <1>16, <1>17, <1>18 DEF Saving

\* When all that is due has been sent, the leaves of the run are its digest and, one
\* for each name the digest has, the details that follow it.
LEMMA AllSentIsComplete ==
  ASSUME RInv, pc = "save" PROVE Complete /\ \E i \in Digests : log[i].set = observed
<1> DEFINE L == Len(log)
           C == Len(changed)
           b == Len(log) - (Len(changed) + 1)
           D == {j \in Details : log[j].run = run}
           of == [k \in 1..C |-> (b + 1) + k]
<1>1. Sent(C + 1) BY DEF RInv, Saving
<1>2. IsSequence(log) /\ IsSequence(changed) BY DEF RInv, PInv, Inv
<1>3. L \in Nat /\ DOMAIN log = 1..L /\ C \in Nat /\ DOMAIN changed = 1..C BY <1>2, Lengths
<1>4. /\ C + 1 <= L
      /\ \A k \in 1..(C + 1) : log[b + k] = Due(k)
      /\ \A i \in DOMAIN log : i <= b => log[i].run # run
      BY <1>1 DEF Sent
<1>5. \A k \in DOMAIN changed : OfRun(changed[k]) BY DEF RInv, Collecting
<1>6. b = L - (C + 1) OBVIOUS
<1> HIDE DEF L, C, b
<1>7. b \in Nat /\ b + 1 \in 1..L BY <1>3, <1>4, <1>6
<1>8. log[b + 1] = Digest
  <2>1. 1 \in 1..(C + 1) BY <1>3
  <2> QED BY <1>4, <2>1 DEF Due
<1>9. /\ Digest.kind = "digest" /\ Digest.run = run /\ Digest.set = observed
      /\ Digest.changed = ChangedIds
      BY DEF Digest, DigestLeaf
<1>10. b + 1 \in Digests BY <1>3, <1>7, <1>8, <1>9 DEF Digests
<1>11. \A k \in 1..C : (b + 1) + k \in 1..L /\ log[(b + 1) + k] = changed[k]
  <2> SUFFICES ASSUME NEW k \in 1..C
               PROVE  (b + 1) + k \in 1..L /\ log[(b + 1) + k] = changed[k]
      OBVIOUS
  <2>1. /\ k + 1 \in 1..(C + 1) /\ k + 1 # 1 /\ (k + 1) - 1 = k
        /\ (b + 1) + k = b + (k + 1) /\ (b + 1) + k \in 1..L
        BY <1>3, <1>4, <1>6, <1>7
  <2>2. log[b + (k + 1)] = Due(k + 1) BY <1>4, <2>1
  <2>3. Due(k + 1) = changed[k] BY <2>1 DEF Due
  <2> QED BY <2>1, <2>2, <2>3
<1>12. \A k \in 1..C : (b + 1) + k \in D
  <2> SUFFICES ASSUME NEW k \in 1..C PROVE (b + 1) + k \in D OBVIOUS
  <2>1. OfRun(changed[k]) BY <1>3, <1>5
  <2> QED BY <1>3, <1>11, <2>1 DEF OfRun, Says, Details
<1>13. ASSUME NEW j \in D PROVE \E k \in 1..C : (b + 1) + k = j
  <2>1. j \in 1..L /\ log[j].kind = "detail" /\ log[j].run = run BY <1>3 DEF Details
  <2>2. ~(j <= b) BY <1>3, <1>4, <2>1
  <2>3. j # b + 1 BY <1>8, <1>9, <2>1
  <2>4. j - (b + 1) \in 1..C /\ (b + 1) + (j - (b + 1)) = j
        BY <1>3, <1>4, <1>6, <1>7, <2>1, <2>2, <2>3
  <2> QED BY <2>4
<1> HIDE DEF D
<1>14. of \in Bijection(1..C, D)
  <2>1. of \in [1..C -> D] BY <1>12
  <2>2. \A k, h \in 1..C : of[k] = of[h] => k = h
    <3> SUFFICES ASSUME NEW k \in 1..C, NEW h \in 1..C, of[k] = of[h] PROVE k = h OBVIOUS
    <3>1. (b + 1) + k = (b + 1) + h OBVIOUS
    <3> QED BY <1>3, <1>7, <3>1
  <2>3. \A j \in D : \E k \in 1..C : of[k] = j BY <1>13
  <2> HIDE DEF of
  <2>4. of \in Injection(1..C, D) BY <2>1, <2>2 DEF Injection, IsInjective
  <2>5. of \in Surjection(1..C, D) BY <2>1, <2>3 DEF Surjection
  <2> QED BY <2>4, <2>5 DEF Bijection
<1>15. \A k \in 1..C : of[k] = (b + 1) + k OBVIOUS
<1> HIDE DEF of
<1>16. DOMAIN ChangedIds = 1..C /\ \A k \in 1..C : ChangedIds[k] = log[of[k]].id
       BY <1>3, <1>11, <1>15 DEF ChangedIds
<1>17. Complete
  <2>1. /\ log[b + 1].run = run
        /\ of \in Bijection(DOMAIN log[b + 1].changed, {j \in Details : log[j].run = run})
        /\ \A k \in DOMAIN log[b + 1].changed : log[b + 1].changed[k] = log[of[k]].id
        BY <1>8, <1>9, <1>14, <1>16 DEF D
  <2> QED BY <1>10, <2>1 DEF Complete
<1> QED BY <1>8, <1>9, <1>10, <1>17

\* A run ends well with its digest in the log, and its details behind it.
LEMMA SaveRecord ==
  ASSUME RInv, Save
  PROVE  LogInv' /\ StateInv' /\ Collecting' /\ Submitting' /\ Saving' /\ Ended'
<1>1. pc = "save" /\ pc' = "idle" /\ rc' = "ok" /\ state' = observed /\ UNCHANGED <<log, run>>
      BY DEF Save, End
<1>2. Complete /\ \E i \in Digests : log[i].set = observed BY <1>1, AllSentIsComplete
<1>3. LogInv' /\ Digests' = Digests /\ Complete' BY <1>1, <1>2, LogStays DEF RInv
<1>4. StateInv' BY <1>1, <1>2, <1>3 DEF StateInv
<1>5. Ended' BY <1>1, <1>3 DEF Ended
<1> QED BY <1>1, <1>3, <1>4, <1>5 DEF Collecting, Submitting, Saving

\* A run that ends otherwise without an append.
LEMMA StopRecord ==
  ASSUME RInv, NEW how, End(how), how # "ok", UNCHANGED <<log, state, run>>
  PROVE  LogInv' /\ StateInv' /\ Collecting' /\ Submitting' /\ Saving' /\ Ended'
<1>1. pc' = "idle" BY DEF End
<1>2. LogInv' /\ Digests' = Digests BY LogStays DEF RInv
<1>3. StateInv' BY <1>1, <1>2 DEF RInv, StateInv
<1> QED BY <1>2, <1>3, EndRecord

LEMMA SentStays ==
  ASSUME UNCHANGED <<log, run, queue, observed, changed, failed>>, NEW n, Sent(n)
  PROVE  Sent(n)'
<1>1. \A k : Due(k)' = Due(k) BY DueStays
<1> QED BY <1>1 DEF Sent

\* Steps that leave alone what has been found, and what is to be appended.
LEMMA QuietRecord ==
  ASSUME RInv, UNCHANGED <<log, state, run, rc, prev, observed, changed, queue>>,
         \/ pc' = pc /\ failed' = failed
         \/ pc \in {"meta", "card"} /\ pc' \in {"meta", "card"}
         \/ pc = "submit" /\ pc' = "save" /\ queue = << >> /\ failed' = failed
  PROVE  LogInv' /\ StateInv' /\ Collecting' /\ Submitting' /\ Saving' /\ Ended'
<1>1. LogInv' /\ Digests' = Digests /\ (Complete => Complete') BY LogStays DEF RInv
<1>2. StateInv' BY <1>1 DEF RInv, StateInv
<1>3. Collecting' BY OfRunStays DEF RInv, Collecting
<1>4. Submitting' BY SentStays DEF RInv, Submitting
<1>5. Saving'
  <2>1. CASE pc = "save" /\ failed' = failed
    <3>1. Sent(Len(changed) + 1) BY <2>1 DEF RInv, Saving
    <3>2. Sent(Len(changed) + 1)' BY <2>1, <3>1, SentStays
    <3> QED BY <3>2 DEF Saving
  <2>2. CASE pc = "submit" /\ pc' = "save" /\ queue = << >> /\ failed' = failed
    <3>1. PICK n : Sent(n) BY <2>2 DEF RInv, Submitting
    <3>2. IsSequence(changed) BY DEF RInv, PInv, Inv
    <3>3. Len(queue) = 0 /\ Len(changed) \in Nat BY <2>2, <3>2, Lengths
    <3>4. n = Len(changed) + 1
      <4>1. n \in Nat /\ Len(queue) + n = Len(changed) + 1 BY <3>1 DEF Sent
      <4> QED BY <3>3, <4>1
    <3>5. Sent(n)' BY <2>2, <3>1, SentStays
    <3> QED BY <3>4, <3>5 DEF Saving
  <2>3. CASE pc' # "save" BY <2>3 DEF Saving
  <2> QED BY <2>1, <2>2, <2>3
<1>6. Ended' BY <1>1 DEF RInv, Ended
<1> QED BY <1>1, <1>2, <1>3, <1>4, <1>5, <1>6

LEMMA StepRecord == ASSUME MayDryRun = FALSE, RInv, [Next]_vars PROVE RInv'
<1> SUFFICES LogInv' /\ StateInv' /\ Collecting' /\ Submitting' /\ Saving' /\ Ended'
    BY StepPInv DEF RInv
<1>1. CASE HubMoves BY <1>1, QuietRecord DEF HubMoves, memory
<1>2. CASE Start BY <1>2, StartRecord
<1>3. CASE GetMeta BY <1>3, QuietRecord DEF GetMeta
<1>4. CASE GetCard BY <1>4, ObserveRecord DEF GetCard
<1>5. CASE CardRefused BY <1>5, ObserveRecord DEF CardRefused
<1>6. CASE FetchFails BY <1>6, QuietRecord DEF FetchFails
<1>7. CASE Queue BY <1>7, QueueRecord
<1>8. CASE Submit BY <1>8, SubmitRecord
<1>9. CASE SubmitFails BY <1>9, StopRecord DEF SubmitFails
<1>10. CASE SubmitUnanswered
  <2>1. /\ pc = "submit" /\ queue # << >> /\ log' = Append(log, Head(queue))
        /\ run' = run /\ state' = state /\ End("failed")
        BY <1>10 DEF SubmitUnanswered
  <2> QED BY <2>1, AppendRecord, EndRecord
<1>11. CASE AllSubmitted BY <1>11, QuietRecord DEF AllSubmitted, memory
<1>12. CASE Save BY <1>12, SaveRecord
<1>13. CASE Killed BY <1>13, StopRecord DEF Killed
<1>14. CASE SortRaises BY <1>14, StopRecord DEF SortRaises
<1>15. CASE UNCHANGED vars BY <1>15, QuietRecord DEF vars, memory
<1> QED BY <1>1, <1>2, <1>3, <1>4, <1>5, <1>6, <1>7, <1>8, <1>9, <1>10, <1>11,
           <1>12, <1>13, <1>14, <1>15 DEF Next

LEMMA InitRecord == Init => RInv
BY InitPromise, RecordInit DEF RInv

\* Every detail leaf comes after the digest of its run, which lists the name it has
\* for the model and has under the model's line what the leaf says; and after an
\* earlier digest that has under that line what the leaf says was (hf_watch.py:87-112).
THEOREM DetailsStandBetweenDigests == ASSUME MayDryRun = FALSE PROVE Spec => []DetailsAreFramed
<1>1. RInv /\ [Next]_vars => RInv' BY StepRecord
<1>2. RInv => DetailsAreFramed BY DEF RInv, LogInv
<1> QED BY InitRecord, <1>1, <1>2, PTL DEF Spec

\* No run is in the log twice, and one that ended well is there with one detail leaf
\* for each name its digest lists, and no more, through failed and unanswered appends
\* and kills (hf_watch.py:99-125).
THEOREM RunsAreOnRecordOnce == ASSUME MayDryRun = FALSE PROVE Spec => []OneDigestPerRun
<1>1. RInv /\ [Next]_vars => RInv' BY StepRecord
<1>2. RInv => OneDigestPerRun
      BY DEF RInv, LogInv, DigestOnce, Ended, Complete, OneDigestPerRun
<1> QED BY InitRecord, <1>1, <1>2, PTL DEF Spec
=============================================================================
