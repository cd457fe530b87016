\* A capture that overlaps training, and the default one that takes the GPU and
\* then the CPU.  With the latter the pair may stop.
SPECIFICATION MCSpec
CONSTANTS
    r1 = r1
    r2 = r2
    m1 = m1
    Rank = {r1, r2}
    Transfer = {m1}
    Collective = {}
    CaptureModes = {FALSE, TRUE}
    MaxFailures = 2
SYMMETRY WorkerSymmetry
INVARIANTS
    NoDeadlock
PROPERTIES
    RecoveryServedFirst
    QueuesExact
CHECK_DEADLOCK FALSE
