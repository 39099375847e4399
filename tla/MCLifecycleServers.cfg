CONSTANTS
    p1 = p1
    p2 = p2
    p3 = p3
    Process = {p1, p2, p3}
    MaxSegments = 4
    MaxHandlers = 1

SPECIFICATION GentleSpec

INVARIANT OneServerUp
