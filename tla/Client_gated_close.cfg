SPECIFICATION Spec
CONSTANTS
  p = p
  x = x
  y = y
  s = s
  NoTotal = NoTotal
  NoEvent = NoEvent
  Callers <- OneCaller
  Closers <- OneCloser
  Series <- MCSeries
  Calls <- CounterCalls
  MaxCalls = 1
  QueueSize = 1
  MaxBatchSize = 1
  MaxTotalSeries = 1
  RetryQueueSize = 1
  RetryFlushMaxSends = 1
  RetryMaxAttempts = 2
  RetryDelays <- MCRetryDelays
  BackoffCap = 2
  BackoffDelays <- MCBackoffDelays
  RetryBaseDelay = 1
  RetryMaxDelay = 2
  RetryJitter = 0
  ClientBackoffMaxDelay = 2
  ClientBackoffJitter = 1
INVARIANT
  ClosePassAttempts
