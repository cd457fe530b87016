\* Failures of a rank while its checkpoints are on their way.
SPECIFICATION LargeSpec
CONSTANTS
    a = a
    b = b
    Jobs = {a, b}
    Settings <- MCSettings
    JobIterations = 3
    Permits = 1
    JobRanks = {0}
    DeviantLimit = 1
PROPERTY RestoresCompleted
CHECK_DEADLOCK FALSE
