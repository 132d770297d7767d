\* Three entries on two pipes, every kind of task may fail.
SPECIFICATION FairSpec
CONSTANTS
    N = 3
    Pipes = 2
    Workers = 2
    MayFail = {"build", "fuzz", "trace", "smatch", "triage", "smatcher"}
INVARIANTS TypeOK CpuExclusive PipesConserved FuzzHasThread StagesOrdered OutcomeHonest
PROPERTIES Termination LeaseImplemented
