SPECIFICATION HostSpec
CONSTANTS
  Strings <- Values
  Absent = Absent
  Fatal = Fatal
  NoSample = NoSample
  Forgotten = Forgotten
  Core <- CoreCollectors
  Probes <- Integrations
  Closable <- ClosableCollectors
  Slow <- SlowCollectors
  MaxConcurrency = 2
  CollectTimeout = 3
  RequestTimeout = 2
  Totalled <- TotalCollectors
  Sampled <- SampleCollectors
  MaxWork = 2
  Inputs <- MCInputs
INVARIANTS
  SlotsAccounted
  QuietBeforeClose
  TotalsCatchUp
  StartsAsAsked
PROPERTIES
  ShutdownCompletes
  KeepsCollecting
