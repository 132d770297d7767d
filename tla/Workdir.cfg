\* Two workdirs, one of them traced, and two builds of the target.
SPECIFICATION WorkdirSpec
CONSTANTS
    Workdirs = {w1, w2}
    Watched = w1
    MaxRev = 2
    MaxTraces = 2
INVARIANTS StoredIsFuzzed DecodeTrusted ListsMatchKernel
