SPECIFICATION MCSpec
CONSTANTS
  Represents <- MCRepresents
  RackSize = 2
  NodeCount = 3
  Iterations = 3
  Cadences <- MCCadences
  Settings <- MCSettings
  MaxEvents = 2
  Transfer <- MCTransfer
  Flow <- MCFlow
  Worker <- MCWorker
  FlowsOf <- MCFlowsOf
  Uses <- MCUses
  Watched <- MCWatched
  Cutoff <- MCCutoff
  MaxDelay = 2
  MaxFailures = 1
  Traces <- RawTraces
  TraceJob = "A"
  ReplayIterations = 4
  IterationTime = 3
  FlushTime = 2
  Detect = 1
  Reprovision = 1
  RestoreOf <- MCRestoreOf
  Window = 14
  parity = parity
  stripe = stripe
  single = single
  p1 = p1
  p2 = p2
  s1 = s1
  s2 = s2
  x1 = x1
  w1 = w1
  w2 = w2
INVARIANTS
  NoFutureCheckpoint
  LossBookedOnce
  DonorsMatchNodes
  TransfersExact
  ReplayAccounted
PROPERTIES
  RestartsAtNewestCommon
\* A job and its transfers end.
CHECK_DEADLOCK FALSE
