SPECIFICATION FairSpec
CONSTANTS
  N = 3
  Malformed = {2}
  Need <- FirstSlow
  Deadline = 3
  OpTimeout = 2
  Grace = 1
  RetryEvery = 2
  Gaps = {1}
  Busy = {1}
  MaxOps = 1
  None = None
INVARIANTS
  NoLeakedConnection
  OverrunBounded
  ReportedIsWork
PROPERTY
  HealthyCollected
