----------------------------- MODULE MCMinimizer ------------------------------
(* Minimizer for TLC: two of the three stacks share their short stack.     *)
EXTENDS Minimizer

MCFulls   == {"f", "g", "h"}
MCShortOf == [f \in MCFulls |-> IF f = "h" THEN "s" ELSE "t"]
=============================================================================
