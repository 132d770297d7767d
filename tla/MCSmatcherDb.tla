---------------------------- MODULE MCSmatcherDb -----------------------------
(* SmatcherDb for TLC: processes, workdirs and places are interchangeable, *)
(* the places are those of one function.                                   *)
EXTENDS SmatcherDb, TLC

MCFunction == [l \in Places |-> "f"]

Symmetry == Permutations(Procs) \cup Permutations(Items) \cup Permutations(Places)
=============================================================================
