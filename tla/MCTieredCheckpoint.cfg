\* A pair with SSD copies, asynchronous with backpressure; each rank fails once.
SPECIFICATION MCSpec
CONSTANTS
  Worker = {0, 1}
  Partner <- MCPartner
  Paired = TRUE
  PersistToSsd = TRUE
  Mode = "backpressure"
  CleanupTakesTime = TRUE
  CheckpointEvery = 1
  Iterations = 2
  MaxSignals <- MCOnce
  p1 = p1
  p2 = p2
  Process <- MCProcess
  APIs <- MCCalls
  MaxEvents = 2
  MaxDelay = 1
  MaxTurns = 3
  None = None
INVARIANTS
  DurableUntilWiped
  InServiceHoldsCopy
  TrainingWaits
PROPERTIES
  CompleteEverywhere
  ResumesFromDurable
  KernelExact
\* The job ends.
CHECK_DEADLOCK FALSE
