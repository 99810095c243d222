------------------------------ MODULE MCStage2 ------------------------------
(* Stage2 for TLC: interchangeable attempts.  Two of them overlap in any     *)
(* way; once all three have begun, one pass runs at a time, while what       *)
(* earlier attempts sent may still land.                                     *)
EXTENDS Stage2, FiniteSets, TLC
Symmetry == Permutations(Attempts)
OnePassAtATime ==
  Cardinality({r \in Attempts : pc[r] \in Active \cup {"opened"}}) <= 1
Bounded == (\E r \in Attempts : pc[r] = "idle") \/ OnePassAtATime
=============================================================================
