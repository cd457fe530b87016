\* Two data-parallel ranks with one shard, whose checkpoints overlap without limit, and
\* two pipeline stages, whose ranks have one checkpoint in flight at a time.
SPECIFICATION FairSpec
CONSTANTS
    Worker <- TwoRanks
    Settings <- MCSettings
    StoreSlots = 1
    LastIteration = 2
    MaxFailures = 2
INVARIANTS
    StoreExact
PROPERTIES
    UploadsWhatWasCaptured
    WriterRestoresNewest
    EverythingCompletes
