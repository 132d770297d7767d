\* All files of up to four lines over three addresses and the token; all paths
\* of up to three names.
SPECIFICATION MCSpec
CONSTANTS
    MaxAddr = 3
    MaxLines = 4
    SameFunc <- MCSameFunc
    Names <- MCNames
    Rest <- MCRest
    Bare <- MCBare
    Source <- MCSource
    Builds <- MCBuilds
    MaxPath = 3
INVARIANTS TraceRead SpellingsAgree
CHECK_DEADLOCK FALSE
