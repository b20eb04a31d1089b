SPECIFICATION Spec
CONSTANTS
  RetryQueueSize = 2
  RetryFlushMaxSends = 1
  RetryMaxAttempts = 2
  RetryDelays <- MCRetryDelays
  BackoffCap = 2
  BackoffDelays <- MCBackoffDelays
  RetryBaseDelay = 1
  RetryMaxDelay = 2
  RetryJitter = 1
  ClientBackoffMaxDelay = 2
  ClientBackoffJitter = 1
PROPERTY
  RecoveryReachesAll
