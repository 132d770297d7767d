---------------------------- MODULE CoverageUnion ----------------------------
(***************************************************************************)
(* What the parallel trace matcher (bkc/coverage/fast_matcher) promises:   *)
(* every trace is settled once, counted or lost as a whole, and one report *)
(* is made, of the addresses the counted traces cover.                     *)
(***************************************************************************)
CONSTANTS
    Traces,
    Covers  \* addresses of the ranges of each trace

VARIABLES
    fate,     \* of each trace: "open", "counted" or "lost"
    reported, \* the report was made
    report    \* the addresses of the report

unionVars == <<fate, reported, report>>

UnionInit ==
    /\ fate = [t \in Traces |-> "open"]
    /\ reported = FALSE
    /\ report = {}

Count(t) ==
    /\ ~reported
    /\ fate[t] = "open"
    /\ fate' = [fate EXCEPT ![t] = "counted"]
    /\ UNCHANGED <<reported, report>>

\* The reader of a trace fails; others may be lost with it.
Lose ==
    /\ ~reported
    /\ \E S \in SUBSET {t \in Traces : fate[t] = "open"} :
        fate' = [t \in Traces |-> IF t \in S THEN "lost" ELSE fate[t]]
    /\ UNCHANGED <<reported, report>>

Publish ==
    /\ ~reported
    /\ \A t \in Traces : fate[t] # "open"
    /\ reported' = TRUE
    /\ report' = UNION {Covers[t] : t \in {u \in Traces : fate[u] = "counted"}}
    /\ UNCHANGED fate

UnionNext == (\E t \in Traces : Count(t)) \/ Lose \/ Publish

UnionSpec == UnionInit /\ [][UnionNext]_unionVars
=============================================================================
