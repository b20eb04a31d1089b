SPECIFICATION Spec
CONSTANTS
  k1 = k1
  k2 = k2
  k3 = k3
  web = web
  db = db
  w1 = w1
  w2 = w2
  None = None
  NoService = NoService
  Containers <- TwoContainers
  Services = {web}
  Service <- Replicas
  Workers <- MCWorkers
  MaxContainers = 2
  MaxUsage = 2
  MaxGrowth <- BothBusy
INVARIANT
  CountedIsTraffic
