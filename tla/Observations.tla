----------------------------- MODULE Observations -----------------------------
(***************************************************************************)
(* What a watcher promises, whatever it watches: it compares what it sees  *)
(* with a baseline, puts on the record all it saw and what of that is not  *)
(* as the baseline has it, and only then takes what it saw for its new     *)
(* baseline.  hf_watch.py and extlog_watch.py keep the promise through     *)
(* failed and unanswered submissions, kills and reruns: HFWatch and        *)
(* ExtlogWatch implement this specification.                               *)
(*                                                                         *)
(* What has moved goes by a name of its own on the record: a leaf has      *)
(* under changed a name for each thing that has moved, and no other name.  *)
(***************************************************************************)
EXTENDS Functions

CONSTANT NamesOf      \* for each thing, what a leaf that says it moved may call it

VARIABLES record,     \* the leaves in the log: all that was seen, and what moved
          baseline    \* the state file

\* What an observation has otherwise than an earlier one.  A thing that either
\* of them leaves out is not compared.
Moved(was, seen) == {x \in DOMAIN was \cap DOMAIN seen : was[x] # seen[x]}

Truthful(leaf) ==
  \E thing \in Bijection(DOMAIN leaf.changed, Moved(baseline, leaf.set)) :
    \A k \in DOMAIN leaf.changed : leaf.changed[k] \in NamesOf[thing[k]]

Init == record = {} /\ baseline = [x \in {} |-> x]

Record == /\ \E leaf \in record' : record' = record \cup {leaf} /\ Truthful(leaf)
          /\ UNCHANGED baseline

Adopt == /\ \E leaf \in record : Truthful(leaf) /\ baseline' = leaf.set
         /\ UNCHANGED record

Next == Record \/ Adopt

Spec == Init /\ [][Next]_<<record, baseline>>

-----------------------------------------------------------------------------

\* A baseline that holds anything has a leaf on the record that covers it.
BaselineIsOnRecord ==
  baseline # [x \in {} |-> x] => \E leaf \in record : leaf.set = baseline
=============================================================================
