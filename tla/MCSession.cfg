CONSTANTS
    c1 = c1
    c2 = c2
    Client = {c1, c2}
    MaxRequests = 2
    MaxLines = 2

SPECIFICATION FairSpec

INVARIANT TypeOK
INVARIANT WritersHaveReader
INVARIANT OutputIsComplete
PROPERTY RequestsAreAnswered
PROPERTY ReadersComeToAnEnd

\* Users stop typing, and a client whose command could not be started waits
\* for ever.
CHECK_DEADLOCK FALSE
