\* A capture that overlaps training: everything completes.
SPECIFICATION FairSpec
CONSTANTS
    r1 = r1
    r2 = r2
    c1 = c1
    Rank = {r1, r2}
    Transfer = {}
    Collective = {c1}
    CaptureModes = {TRUE}
    MaxFailures = 1
PROPERTIES
    EverythingCompletes
