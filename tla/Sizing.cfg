\* Every machine of up to 20 CPUs, every campaign of up to 5 harnesses.
SPECIFICATION SizingSpec
CONSTANTS
    MaxCpu = 20
    MaxWorkers = 7
    MaxThreads = 2
    MaxHarness = 5
CHECK_DEADLOCK FALSE
INVARIANTS CpusInBudget BuildsInBudget PipesMaximal
