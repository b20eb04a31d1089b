SPECIFICATION Spec
CONSTANTS
  a = a
  b = b
  c = c
  h1 = h1
  h2 = h2
  u1 = u1
  o1 = o1
  o2 = o2
  o3 = o3
  None = None
  Objects <- MCObjects
  Series <- MCSeries
  UniqueIds = {u1}
  Deltas <- MCDeltas
  Samples <- MCSamples
  Times = {1, 2}
  Hashes <- MCHashes
  Hash <- MCHash
  MaxSeriesPerBatch = 2
  Scale = 4
  QueueSize = 1
  MaxBatchSize = 3
  RetryQueueSize = 1
  MaxEvents = 3
SYMMETRY Symmetry
INVARIANTS
  PayloadConserved
  OneOwner
  RoundingBounded
  LookupExact
