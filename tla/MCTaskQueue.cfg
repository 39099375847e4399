CONSTANTS
    n1 = n1
    n2 = n2
    n3 = n3
    n4 = n4
    c1 = c1
    c2 = c2
    NULL = NULL
    Node <- MCNode
    Client <- MCClient

SPECIFICATION Spec

SYMMETRY MCSymmetry

INVARIANT TypeOK
INVARIANT QueueLinked
INVARIANT RemoveTouchesLiveNodes
INVARIANT ShowListsActiveTasks
INVARIANT FindReturnsNewest
PROPERTY ImplementsTaskList
