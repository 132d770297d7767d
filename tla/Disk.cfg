\* One harness, two workdirs, two revisions of the kernel, four runs.
SPECIFICATION Spec
CONSTANTS
    Harnesses = {h1}
    Files = 2
    MaxDirs = 2
    MaxRev = 2
    MaxRuns = 4
INVARIANTS
    RebuildFresh TargetWhole TraceMatchesFuzz SuccessHonest TriageReports ScheduledConfigured
PROPERTIES ResultsKept
CHECK_DEADLOCK FALSE
