------------------------------ MODULE MCHFWatch ------------------------------
(***************************************************************************)
(* TLC instance of HFWatch: two commits and two models, of which the first *)
(* may be renamed to what the second is called.                            *)
(***************************************************************************)
EXTENDS HFWatch

CONSTANTS m1, m2, c1, c2, n1, n2

MCIds     == <<m1, m2>>
MCCommits == {c1, c2}
MCNamesOf == [m \in {m1, m2} |-> IF m = m1 THEN {n1, n2} ELSE {n2}]
Symmetry  == Permutations(MCCommits)
=============================================================================
