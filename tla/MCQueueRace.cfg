CONSTANTS
    n1 = n1
    n2 = n2
    n3 = n3
    c1 = c1
    t1 = t1
    t2 = t2
    t3 = t3
    t4 = t4
    NULL = NULL
    Node <- MCNode
    Client = {c1}
    Thread <- MCThread

SPECIFICATION SpecRace
SYMMETRY MCSymmetry

INVARIANT TypeOKRace
INVARIANT SoundUntilThreadsRace
INVARIANT FaultNeedsRace
INVARIANT NullNeedsAddRace
INVARIANT ListIsASnapshot
INVARIANT ListHasEnd

\* The model stops at a fault.
CHECK_DEADLOCK FALSE
