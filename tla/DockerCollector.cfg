SPECIFICATION FairSpec
CONSTANTS
  k1 = k1
  k2 = k2
  k3 = k3
  web = web
  db = db
  w1 = w1
  w2 = w2
  None = None
  NoService = NoService
  Containers <- MCContainers
  Services <- MCServices
  Service <- OneEach
  Workers <- MCWorkers
  MaxContainers = 2
  MaxUsage = 1
  MaxGrowth <- FirstBusy
INVARIANTS
  PrevPruned
  VisitsEach
  CountedIsTraffic
PROPERTY
  CollectReturns
