CONSTANTS
    c1 = c1
    c2 = c2
    Client = {c1}
    MaxRequests = 2
    MaxLines = 1

SPECIFICATION FairExit

PROPERTY CancelReleasesClient
PROPERTY ShutdownAllReachesClients
PROPERTY ExitIsCarriedOut
PROPERTY ShutdownIsHeeded

\* Users stop typing, and the model stops at a fault.
CHECK_DEADLOCK FALSE
