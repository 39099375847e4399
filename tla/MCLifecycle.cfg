CONSTANTS
    p1 = p1
    p2 = p2
    p3 = p3
    Process = {p1, p2}
    MaxSegments = 3
    MaxHandlers = 2

SPECIFICATION FairSpec

INVARIANT TypeOK
INVARIANT ServersDoNotShare
INVARIANT NameHasKeeper
PROPERTY NamesAreGivenBack
