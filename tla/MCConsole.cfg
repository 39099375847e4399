CONSTANTS
    c1 = c1
    c2 = c2
    Client <- MCClient
    MaxRequests = 2
    MaxLines = 1

SPECIFICATION SpecExit
SYMMETRY MCSymmetry

INVARIANT TypeOKExit
INVARIANT UseAfterFreeNeedsOverlap
INVARIANT SigpipeNeedsLostReader
INVARIANT NothingFollowsMarker
INVARIANT ExitCancelsAll

\* Users stop typing, and the model stops at a fault.
CHECK_DEADLOCK FALSE
