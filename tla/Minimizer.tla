------------------------------ MODULE Minimizer -------------------------------
(***************************************************************************)
(* minimize_stimulus.sh: a run goes through the dumps (archives of a trace *)
(* and of gcov data) of a workdir in order, counts the stacks of each in   *)
(* folders that later runs go on with, and computes the covered lines of a *)
(* dump only if it has a short stack, the end of a stack, that no dump had *)
(* before.  A run may be stopped anywhere, gives up at a dump without gcov *)
(* data, goes on if gcovr or coveralls2addr fails, and never goes back to  *)
(* a dump that it or another run unpacked.                                 *)
(***************************************************************************)
EXTENDS Integers, Sequences, FiniteSets, SequencesExt, FiniteSetsExt

CONSTANTS
    Fulls,      \* stacks
    ShortOf,    \* the short stack of each
    MaxDumps,   \* bound: dumps of the workdir
    MaxStacks,  \* bound: stacks in the trace of a dump
    MaxRuns     \* bound: runs

ASSUME MinimizerAssumption ==
    /\ MaxDumps \in Nat /\ MaxStacks \in Nat /\ MaxRuns \in Nat \ {0}
    /\ \A f \in Fulls : ShortOf[f] \notin Fulls  \* the two have folders of their own

Dumps  == 1 .. MaxDumps
Shorts == {ShortOf[f] : f \in Fulls}
Keys(f) == {f, ShortOf[f]}
None   == 0
Traces == UNION {[1 .. n -> Fulls] : n \in 0 .. MaxStacks}

VARIABLES
    trace,     \* of each dump: its stacks
    damaged,   \* dumps without gcov data
    arrived,   \* dumps whose archive a run has listed
    unpacked,  \* dumps with a folder
    seen,      \* full and short stacks with a folder
    callers,   \* callers.lst of each: how often it names each dump
    report,    \* of each dump: its list of covered lines, "none", "part", "whole",
               \* or "failed" if gcovr or coveralls2addr failed
    runs,      \* runs started so far
    step,      \* the next step of the run, "idle" between two
    todo,      \* dumps the run has not come to
    dump,      \* the dump it is at
    pos,       \* the stack it is at
    new,       \* HAVE_NEW_STACKS
    cut        \* history: dumps that a run did not finish

inputs  == <<trace, damaged>>
folders == <<unpacked, seen, callers, report>>
run     == <<runs, step, todo, dump, pos, new>>
vars    == <<inputs, arrived, folders, run, cut>>

Init ==
    /\ trace \in [Dumps -> Traces]
    /\ damaged \in SUBSET Dumps
    /\ arrived = {}
    /\ unpacked = {} /\ seen = {}
    /\ callers = [k \in Fulls \cup Shorts |-> [d \in Dumps |-> 0]]
    /\ report = [d \in Dumps |-> "none"]
    /\ runs = 0 /\ step = "idle" /\ todo = {} /\ dump = None /\ pos = 1 /\ new = FALSE
    /\ cut = {}

-----------------------------------------------------------------------------
\* The archives are listed once; dumps that arrive later are the next run's.
Start ==
    /\ step = "idle"
    /\ runs < MaxRuns
    /\ \E more \in SUBSET (Dumps \ arrived) : arrived' = arrived \cup more
    /\ arrived' # {}
    /\ runs' = runs + 1
    /\ step' = "next"
    /\ todo' = arrived'
    /\ UNCHANGED <<inputs, folders, dump, pos, new, cut>>

\* The run ends, at a dump or between two.
Quit ==
    /\ step' = "idle" /\ todo' = {} /\ dump' = None /\ pos' = 1 /\ new' = FALSE
    /\ cut' = cut \cup ({dump} \ {None})
    /\ UNCHANGED <<inputs, arrived, runs>>

\* It is stopped; a list may be in part.
Stop ==
    /\ step # "idle"
    /\ Quit
    /\ report' \in {report} \cup
           (IF step = "cover" THEN {[report EXCEPT ![dump] = "part"]} ELSE {})
    /\ UNCHANGED <<unpacked, seen, callers>>

At(from, to) ==
    /\ step = from /\ step' = to
    /\ UNCHANGED <<inputs, arrived, runs, cut>>

Skip ==
    /\ At("next", "next")
    /\ todo # {} /\ Min(todo) \in unpacked
    /\ todo' = todo \ {Min(todo)}
    /\ UNCHANGED <<folders, dump, pos, new>>

Unpack ==
    /\ At("next", "see")
    /\ todo # {} /\ Min(todo) \notin unpacked
    /\ dump' = Min(todo) /\ todo' = todo \ {dump'}
    /\ unpacked' = unpacked \cup {dump'}
    /\ pos' = 1 /\ new' = FALSE
    /\ UNCHANGED <<seen, callers, report>>

-----------------------------------------------------------------------------
(* The stacks of a dump.                                                   *)

Stack == trace[dump][pos]

\* mkdir of the folders of a stack that has none.  (Seeded fault: a stack that
\* is new as a whole, although its short stack may not be, is what counts.)
NewsFull(f) == f \notin seen
News(f) == ShortOf[f] \notin seen

See ==
    /\ At("see", "count")
    /\ pos <= Len(trace[dump])
    /\ seen' = seen \cup Keys(Stack)
    /\ new' = (new \/ News(Stack))
    /\ UNCHANGED <<unpacked, callers, report, todo, dump, pos>>

\* The name of the dump goes to callers.lst of both, one after the other.
Count ==
    /\ \/ At("count", "short") /\ pos' = pos /\ callers' = [callers EXCEPT ![Stack][dump] = @ + 1]
       \/ /\ At("short", "see") /\ pos' = pos + 1
          /\ callers' = [callers EXCEPT ![ShortOf[Stack]][dump] = @ + 1]
    /\ UNCHANGED <<unpacked, seen, report, todo, dump, new>>

EndOfTrace ==
    /\ At("see", IF new THEN "cover" ELSE "clean")
    /\ pos > Len(trace[dump])
    /\ UNCHANGED <<folders, todo, dump, pos, new>>

\* gcovr, and the lines of it that smatch reports.  Nothing looks at the exit
\* status: a list without lines is put aside, and the dump is as good as others.
Cover ==
    /\ At("cover", "clean")
    /\ dump \notin damaged
    /\ \E list \in {"whole", "failed"} : report' = [report EXCEPT ![dump] = list]
    /\ UNCHANGED <<unpacked, seen, callers, todo, dump, pos, new>>

\* The gcov data are packed again.
Clean ==
    /\ At("clean", "next")
    /\ dump \notin damaged
    /\ dump' = None
    /\ UNCHANGED <<folders, todo, pos, new>>

\* "No GCDA root found, exit" and "Error in gcov cleanup - abort".
GiveUp ==
    /\ step \in {"cover", "clean"}
    /\ dump \in damaged
    /\ Quit
    /\ UNCHANGED folders

\* The lists of all dumps are summed up.
SumUp ==
    /\ step = "next" /\ todo = {}
    /\ Quit
    /\ UNCHANGED folders

Next ==
    \/ Start \/ Stop \/ Skip \/ Unpack
    \/ See \/ Count \/ EndOfTrace \/ Cover \/ Clean \/ GiveUp \/ SumUp

Spec == Init /\ [][Next]_vars

-----------------------------------------------------------------------------
(* Properties.                                                             *)

Times(k, d) == Cardinality({i \in DOMAIN trace[d] : k \in Keys(trace[d][i])})

\* The dumps that are over, finished or not.
Past == unpacked \ {dump}

\* Each stack of a finished dump is counted once, and none of another dump
\* more than once, however often runs are stopped and started again.
Counted ==
    \A k \in Fulls \cup Shorts, d \in Past :
        /\ callers[k][d] <= Times(k, d)
        /\ d \notin cut => callers[k][d] = Times(k, d)

\* The coverage of a dump was computed, well or not.
Computed(d) == report[d] \in {"whole", "failed"}

\* For each short stack of a dump that is over some dump with it was computed,
\* unless one with it was not finished; and no more dumps are computed than
\* there are short stacks.
Covered ==
    /\ \A s \in Shorts :
          LET having(D) == {d \in D : Times(s, d) > 0}
          IN  having(Past) # {} => \/ \E d \in having(Past) : Computed(d)
                                  \/ having(cut) # {}
    /\ Cardinality({d \in Past : Computed(d)}) <= Cardinality(seen \cap Shorts)

\* Across stopped runs, dumps that arrive meanwhile and damaged ones the
\* backtraces are counted, and what coverage is missing is only that of short
\* stacks of a dump that was not finished, or for whose dump gcovr or
\* coveralls2addr failed unnoticed (minimize_stimulus.sh:68-76, 111-162).
StacksAccounted == Counted /\ Covered
=============================================================================
