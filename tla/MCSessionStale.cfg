CONSTANTS
    c1 = c1
    c2 = c2
    Client = {c1}
    MaxRequests = 2
    MaxLines = 1

SPECIFICATION FairSpec

PROPERTY EveryRequestEnds

\* A blocked client and a blocked thread may be all that is left.
CHECK_DEADLOCK FALSE
