\* A rack event between two boundaries, while pieces are on their way.
SPECIFICATION ReplicaSpec
CONSTANTS
    Iterations = 3
    Settings <- MCDark
    MaxEvents = 2
INVARIANT RecordsAreReal
CHECK_DEADLOCK FALSE
