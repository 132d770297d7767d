\* Two audits, each of which may stop anywhere, two versions of .config,
\* two builds.
SPECIFICATION TreeSpec
CONSTANTS
    MaxAudits = 2
    MaxEdits = 2
    Builds = {b1, b2}
INVARIANTS ConfigNotLost DeliveredAsked BuildsApart
CHECK_DEADLOCK FALSE
