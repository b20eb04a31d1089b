SPECIFICATION FairSpec
CONSTANTS
  p = p
  x = x
  y = y
  s = s
  NoTotal = NoTotal
  NoEvent = NoEvent
  Callers <- OneCaller
  Closers <- MCClosers
  Series <- MCSeries
  Calls <- MixedCalls
  MaxCalls = 2
  QueueSize = 1
  MaxBatchSize = 2
  MaxTotalSeries = 1
  RetryQueueSize = 2
  RetryFlushMaxSends = 2
  RetryMaxAttempts = 2
  RetryDelays <- MCRetryDelays
  BackoffCap = 1
  BackoffDelays <- MCBackoffDelays
  RetryBaseDelay = 1
  RetryMaxDelay = 2
  RetryJitter = 0
  ClientBackoffMaxDelay = 2
  ClientBackoffJitter = 0
INVARIANTS
  EveryEventAccounted
  RetryBounded
  BatchIdentity
  CloseDrains
PROPERTIES
  DeferralNeverLoses
  StopIsFinal
  CloseProgress
  KeepsPromise
  CloseCompletes
