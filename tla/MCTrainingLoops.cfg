\* Two workers hit at most twice each; the other machines as the module says.
SPECIFICATION MCSpec
CONSTANTS
  Worker = {w1, w2}
  RestartSeconds <- MCRestartSeconds
  MaxSignals <- MCSignals
  World = 3
  Modes <- MCModes
  Warmup = 1
  Iterations = 2
  Microbatches = 2
  CheckpointEvery = 1
  MaxFaults = 1
  a = a
  b = b
  Jobs = {a, b}
  Settings <- AggregateSettings
  JobIterations = 3
  Permits = 1
  JobRanks = {0}
  DeviantLimit = 1
  LegacySettings <- MCLegacySettings
  TotalIterations = 4
  FailureEvery = 2
  Dram = 2
INVARIANTS
  NeverEarlyInService
  OneRecoveryPerOutage
  CoalescedAtHighestSeverity
  TraceIsWhole
  RecoversRecent
  CheckpointsInOrder
PROPERTIES
  AcceptedRecoveryIsCurrent
  ImplementsOutage
  PeersAgree
  LoopsEnd
\* The loops stop when they end.
CHECK_DEADLOCK FALSE
