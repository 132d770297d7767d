\* All reports of up to three results and annotated lists of up to two entries,
\* up to four of both together.
SPECIFICATION ListsSpec
CONSTANTS
    Warnings <- MCWarnings
    MaxResults = 3
    MaxOld = 2
    MaxBoth = 4
INVARIANTS FilterExact ReviewsKept AuditComplete
CHECK_DEADLOCK FALSE
