SPECIFICATION FairSpec
CONSTANTS
  w1 = w1
  w2 = w2
  a = a
  b = b
  Nobody = Nobody
  Senders <- MCSenders
  Series <- MCSeries
  Payloads <- MCPayloads
  MaxSends = 3
  MaxDictionarySeries = 2
  Misconfigured = {}
INVARIANTS
  NoMisattribution
  DictionaryVersioned
  ResyncSelfContained
  ReplayOnlyUnanswered
PROPERTY
  SendReturns
