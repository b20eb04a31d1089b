SPECIFICATION FairSpec
CONSTANTS
  a = a
  b = b
  c = c
  Threads <- MCThreads
  Seconds <- TwoSeconds
  maxValueEventsPerSecond = 2
INVARIANTS
  AtMostPerSecond
  DenialJustified
PROPERTIES
  CallReturns
