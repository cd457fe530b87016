\* Both placements, a drain to L3 and a parity piece; two failures, of anyone.
\* The job may stop: it ends with its last iteration.
SPECIFICATION MCSpec
CONSTANTS
    None = None
    d1 = d1
    d2 = d2
    d3 = d3
    Donor = {d1, d2, d3}
    K = 2
    DramSlots = 2
    MaxIteration = 2
    MaxFailures = 2
    Settings <- AllSettings
    alpha = alpha
    bravo = bravo
    charlie = charlie
    a1 = a1
    a2 = a2
    b1 = b1
    b2 = b2
    c1 = c1
    Registered <- MCRegistered
    Job <- MCJob
    HomeJob <- MCHomeJob
    Represents <- MCRepresents
    RacksOf <- MCRacks
    Allowed <- MCAllowed
    DramHostSlots = 2
    DramHostGb = 6
    ShardGb = 6
    FanoutMin = 2
    RegistrySettings <- Matchings
    MaxEvents = 3
SYMMETRY DonorSymmetry
CHECK_DEADLOCK FALSE
INVARIANTS
    RestorableIsWhole
    RecordsExact
    NothingAbandoned
    FreshFlushStarts
    LedgerExact
PROPERTIES
    StripeIsSpread
