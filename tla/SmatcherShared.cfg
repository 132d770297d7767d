\* Two processes share the database and two workdirs, and each may be killed.
SPECIFICATION Spec
CONSTANTS
    Procs = {p1, p2}
    Items = {i1, i2}
    Places = {l1, l2}
    Function <- MCFunction
SYMMETRY Symmetry
INVARIANTS SignsJustified
PROPERTIES LossOnlyByRace
CHECK_DEADLOCK FALSE
