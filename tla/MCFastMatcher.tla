---------------------------- MODULE MCFastMatcher ----------------------------
(***************************************************************************)
(* FastMatcher for TLC: three traces that overlap in some addresses.       *)
(***************************************************************************)
EXTENDS FastMatcher, TLC

CONSTANTS t1, t2, t3

MCTraces == {t1, t2, t3}
MCCovers == t1 :> {1, 2} @@ t2 :> {2, 3} @@ t3 :> {3, 4}

\* A vmlinux with a line for every address, and one without one for 1.
MCLineTables == {{1, 2, 3, 4}, {2, 3, 4}}
=============================================================================
