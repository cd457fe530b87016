SPECIFICATION MCSpec
CONSTANTS
    Classes <- MCClasses
    Count <- MCCount
    Initial <- MCInitial
    Limit <- MCLimit
    Delayed = {"b"}
    Victims = {"a"}
    Arms <- MCArms
    Work = 2
    MaxFailures = 1
    Iterations = 3
    Settings <- Baselines
    MaxEvents = 2
INVARIANTS
    PolicyFits
    CopiesExact
PROPERTIES
    UnpairedOutage
    EveryArmEnds
\* An arm and a job end.
CHECK_DEADLOCK FALSE
