--------------------------- MODULE CampaignSizing ---------------------------
(***************************************************************************)
(* parse_args() and the sizing in main() of bkc/kafl/pipeline.py: how many *)
(* fuzz jobs run at a time, how many CPUs each gets and how many threads   *)
(* the builds use, from the options and the harnesses that were found.     *)
(***************************************************************************)
EXTENDS Integers

CONSTANTS
    MaxCpu,      \* bound: --ncpu is in 1 .. MaxCpu
    MaxWorkers,  \* bound: --workers is in 1 .. MaxWorkers
    MaxThreads,  \* bound: --threads is in 1 .. MaxThreads
    MaxHarness   \* bound: harnesses discovered

ASSUME SizingAssumption ==
    /\ MaxCpu \in Nat /\ MaxWorkers \in Nat /\ MaxThreads \in Nat
    /\ MaxHarness \in Nat

VARIABLES
    stage,      \* "parsed", "split", "loaded" (parsl.load) or "exit"
    harnesses,  \* len(harness_dirs)
    ncpu, workers, threads, npipes \* of args; npipes is 0 before it is set

sizingVars == <<stage, harnesses, ncpu, workers, threads, npipes>>

-----------------------------------------------------------------------------
SizingInit ==
    /\ stage = "parsed"
    /\ harnesses \in 0 .. MaxHarness
    /\ ncpu \in 1 .. MaxCpu
    /\ workers \in 1 .. MaxWorkers
    /\ threads \in 1 .. MaxThreads
    /\ npipes = 0

\* No harness matches: sys.exit.
NothingToDo ==
    /\ stage = "parsed"
    /\ harnesses < 1
    /\ stage' = "exit"
    /\ UNCHANGED <<harnesses, ncpu, workers, threads, npipes>>

\* How many groups of w CPUs are used out of n, two CPUs staying free.
\* (Seeded faults: rounded up; no CPU reserved.)
PipesFittingUp(n, w) == (n + w - 1) \div w
PipesFittingDense(n, w) == n \div w
PipesFitting(n, w) == IF (n - 2) \div w > 1 THEN (n - 2) \div w ELSE 1

\* For few CPUs, a single pipe with all of them.
FewCpus ==
    /\ stage = "parsed"
    /\ harnesses >= 1
    /\ ncpu < workers
    /\ npipes' = 1
    /\ workers' = ncpu
    /\ threads' = 2 * ncpu
    /\ stage' = "split"
    /\ UNCHANGED <<harnesses, ncpu>>

SplitCpus ==
    /\ stage = "parsed"
    /\ harnesses >= 1
    /\ ncpu >= workers
    /\ npipes' = PipesFitting(ncpu, workers)
    /\ threads' = 2 * workers
    /\ stage' = "split"
    /\ UNCHANGED <<harnesses, ncpu, workers>>

\* Threads of each build when there are fewer harnesses than pipes.
\* (Seeded fault: every build gets the threads of the whole machine.)
ScaledThreadsAll(n, p) == 2 * n
ScaledThreads(n, p) == 2 * (n \div p)

\* No more pipes than harnesses; the threads, not the workers, scale up.
CapPipes ==
    /\ stage = "split"
    /\ IF npipes > harnesses
       THEN npipes' = harnesses /\ threads' = ScaledThreads(ncpu, harnesses)
       ELSE UNCHANGED <<npipes, threads>>
    /\ stage' = "loaded"
    /\ UNCHANGED <<harnesses, ncpu, workers>>

SizingNext == NothingToDo \/ FewCpus \/ SplitCpus \/ CapPipes

SizingSpec == SizingInit /\ [][SizingNext]_sizingVars

-----------------------------------------------------------------------------
(* Properties.                                                             *)

Sized == stage = "loaded"

SizingTypeOK ==
    /\ stage \in {"parsed", "split", "loaded", "exit"}
    /\ harnesses \in Nat /\ npipes \in Nat
    /\ ncpu \in Nat \ {0} /\ workers \in Nat \ {0} /\ threads \in Nat

\* Every pipe has at least one CPU and only CPUs below --ncpu, whatever the
\* options and the number of harnesses: the offset workers*pipe_id of the last
\* pipe still leaves room for its workers (pipeline.py:392-404 and 132-133).
CpusInBudget ==
    Sized => /\ npipes >= 1
             /\ \A p \in 0 .. npipes - 1 : workers * p + workers - 1 < ncpu

\* Concurrent builds, one per pool thread and each with make -j threads, never
\* run more than two jobs per CPU (pipeline.py:392-404, MAKEFLAGS at 95).
BuildsInBudget == Sized => npipes * threads <= 2 * ncpu

\* Sizing wastes no pipe: with enough CPUs for the workers, either every
\* harness has a pipe or one more would eat into the two CPUs kept free, and
\* several pipes never eat into them (pipeline.py:398-403).
PipesMaximal ==
    Sized /\ workers < ncpu =>
        /\ npipes = harnesses \/ (npipes + 1) * workers > ncpu - 2
        /\ npipes > 1 => npipes * workers <= ncpu - 2
=============================================================================
