CONSTANTS
    LineLength <- MCLineLength
    MaxLines = 2
    MAXLINE = 4096

SPECIFICATION FairSpec

INVARIANT TypeOK
INVARIANT SigpipeNeedsMisreading
INVARIANT OnlyMarkerSizedLinesAreLost
PROPERTY CancelledClientStops

\* The model ends with the request.
CHECK_DEADLOCK FALSE
