\* One line of trace, whose location lies in a file that may have a "-" in its
\* name; paths of up to three names.
SPECIFICATION MCSpec
CONSTANTS
    MaxAddr = 3
    MaxLines = 0
    SameFunc <- MCSameFunc
    Names <- MCUndotted
    Rest <- MCRest
    Bare <- MCBare
    Source <- MCSource
    Builds <- MCBuilds
    MaxPath = 3
INVARIANTS TargetsPrinted
CHECK_DEADLOCK FALSE
