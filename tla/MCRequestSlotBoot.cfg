CONSTANTS
    c1 = c1
    c2 = c2
    t1 = t1
    t2 = t2
    ls = ls
    date = date
    NoClient = NoClient
    NoTask = NoTask
    TORN = TORN
    MaxDeserted = 0
    Client = {c1}
    Command = {ls, date}
    Length <- MCLength
    Thread = {t1, t2}

SPECIFICATION FairBootSpec

PROPERTY SomeoneIsServed

\* Every user may type "exit", and the listener then waits for ever.
CHECK_DEADLOCK FALSE
