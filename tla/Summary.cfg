\* Three logs, two tags, two jobs in each of two runs that may be interrupted.
SPECIFICATION Spec
CONSTANTS
    k1 = k1  c1 = c1  t1 = t1  h1 = h1  h2 = h2  s1 = s1  s2 = s2
    Logs = {k1, c1, t1}
    Kind <- MCKind
    Site <- MCSite
    Origin <- MCOrigin
    Early = {k1, c1}
    HasElf = {c1, t1}
    HasStack = {c1}
    Contents <- MCContents
    Tags = {g1, g2}
    NProc = 2
    MaxRuns = 2
    None = None
SYMMETRY Symmetry
INVARIANTS SummaryExact SamplesWhole JobsDisjoint
CHECK_DEADLOCK FALSE
