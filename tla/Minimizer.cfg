\* Three runs over two dumps of up to three stacks.
SPECIFICATION Spec
CONSTANTS
    Fulls <- MCFulls
    ShortOf <- MCShortOf
    MaxDumps = 2
    MaxStacks = 3
    MaxRuns = 3
INVARIANTS StacksAccounted
CHECK_DEADLOCK FALSE
