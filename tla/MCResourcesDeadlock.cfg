\* The default again: a failed worker need not recover.
SPECIFICATION FairSpec
CONSTANTS
    r1 = r1
    r2 = r2
    m1 = m1
    Rank = {r1, r2}
    Transfer = {m1}
    Collective = {}
    CaptureModes = {FALSE}
    MaxFailures = 1
PROPERTY
    FailedWorkersRecover
CHECK_DEADLOCK FALSE
