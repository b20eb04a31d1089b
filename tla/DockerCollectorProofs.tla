----------------------- MODULE DockerCollectorProofs -----------------------
(***************************************************************************)
(* Proofs about the Docker collector (DockerCollector.tla) for any number  *)
(* of containers, services and workers.                                    *)
(***************************************************************************)
EXTENDS DockerCollector, TLAPS

-----------------------------------------------------------------------------
(* The inductive invariant                                                 *)

Busy == {"stats", "total", "cpu"}

\* A worker that is busy has a labelled container of this collection, and no two
\* have the same; one that is not busy has none.
Assigned ==
  /\ \A w \in Workers :
       IF wpc[w] \in Busy
         THEN item[w] \in Containers /\ Labelled(item[w]) /\ item[w] \in visited
         ELSE item[w] = None
  /\ \A v, w \in Workers : item[v] = item[w] /\ item[v] # None => v = w

\* What was listed is handed out or still to do, unless the time is up; between
\* collections there is nothing of either.
Shared ==
  /\ visited \subseteq active /\ visited \cap todo = {}
  /\ pc # "idle" /\ ~ctxDone => visited \cup todo = active
  /\ pc # "send" => todo = {}
  /\ pc = "idle" => /\ visited = {} /\ ~ctxDone
                    /\ \A w \in Workers : wpc[w] = "done"

\* k has a label, and is the only container with it.
Alone(k) ==
  Labelled(k) /\ \A j \in Containers : Service[j] = Service[k] => j = k

\* What the next total of k would add to what is counted did happen, whether the
\* total a worker is about to record is applied or lost.
Backed(k) ==
  LET s == Service[k] IN
  IF totals[s] = None
    THEN /\ counted[s] = 0
         /\ \A w \in Workers : wpc[w] = "total" /\ item[w] = k =>
              Delta(sample[w], usage[k]) <= growth[k]
    ELSE /\ counted[s] + Delta(totals[s], usage[k]) <= growth[k]
         /\ \A w \in Workers : wpc[w] = "total" /\ item[w] = k =>
              counted[s] + Delta(totals[s], sample[w]) + Delta(sample[w], usage[k])
                <= growth[k]

Traffic ==
  /\ growth \in [Containers -> Nat]
  /\ \A k \in Containers : Alone(k) => Backed(k)
  /\ \A s \in Services : (\A k \in Containers : Service[k] # s) => counted[s] = 0

Inv == TypeOK /\ Assigned /\ Shared /\ PrevPruned /\ Traffic

-----------------------------------------------------------------------------
(* Deltas                                                                  *)

LEMMA DeltaType ==
  ASSUME NEW a \in Nat, NEW b \in Nat
  PROVE  Delta(a, b) \in Nat /\ Delta(a, 0) = 0 /\ Delta(a, a) = 0
         /\ Delta(a, b + 1) <= Delta(a, b) + 1
BY DEF Delta

LEMMA UsageType ==
  ASSUME TypeOK, Traffic
  PROVE  /\ \A k \in Containers : usage[k] \in Nat /\ growth[k] \in Nat
         /\ \A w \in Workers : sample[w] \in Nat
         /\ \A s \in Services :
              counted[s] \in Nat /\ (totals[s] # None => totals[s] \in Nat)
         /\ None \notin Nat
<1>1. MaxUsage \in Nat /\ None \notin Nat
  BY DockerAssumption DEF DockerAssumption
<1>2. QED
  BY <1>1 DEF TypeOK, Traffic

LEMMA ServiceType ==
  ASSUME NEW k \in Containers, Labelled(k)
  PROVE  Service[k] \in Services
BY DockerAssumption DEF DockerAssumption, Labelled

-----------------------------------------------------------------------------
(* What is counted                                                         *)

\* A step that leaves the daemon and the client alone, and after which no worker is
\* about to record another total than before.
LEMMA TrafficFrame ==
  ASSUME Traffic, UNCHANGED <<usage, growth, totals, counted>>,
         \A w \in Workers : wpc'[w] = "total" =>
           wpc[w] = "total" /\ item'[w] = item[w] /\ sample'[w] = sample[w]
  PROVE  Traffic'
<1>1. ASSUME NEW k \in Containers, Alone(k) PROVE Backed(k)'
  <2>1. Backed(k)
    BY <1>1 DEF Traffic
  <2>2. QED
    BY <2>1 DEF Backed
<1>2. QED
  BY <1>1 DEF Traffic, Alone, Labelled

\* A container restarts.
LEMMA RestartTraffic ==
  ASSUME TypeOK, Traffic, NEW k \in Containers, StartContainer(k)
  PROVE  Traffic'
<1>1. /\ UNCHANGED <<growth, totals, counted, wpc, item, sample>>
      /\ usage' = [usage EXCEPT ![k] = 0]
  BY DEF StartContainer, counts
<1>2. usage'[k] = 0 /\ \A j \in Containers : j # k => usage'[j] = usage[j]
  BY <1>1 DEF TypeOK
<1>3. ASSUME NEW j \in Containers, Alone(j) PROVE Backed(j)'
  <2>1. Backed(j)
    BY <1>3 DEF Traffic
  <2>2. CASE j # k
    BY <1>1, <1>2, <2>1, <2>2 DEF Backed
  <2>3. CASE j = k
    <3> DEFINE s == Service[k]
    <3>1. s \in Services
      BY <1>3, <2>3, ServiceType DEF Alone
    <3>2. /\ growth[k] \in Nat /\ usage[k] \in Nat /\ counted[s] \in Nat
          /\ totals[s] # None => totals[s] \in Nat
          /\ \A w \in Workers : sample[w] \in Nat
      BY <3>1, UsageType
    <3> HIDE DEF s
    <3>3. CASE totals[s] = None
      <4>1. counted[s] = 0
        BY <2>1, <2>3, <3>3 DEF Backed, s
      <4>2. \A w \in Workers : Delta(sample[w], 0) = 0
        BY <3>2, DeltaType
      <4>3. QED
        BY <1>1, <1>2, <2>3, <3>2, <3>3, <4>1, <4>2 DEF Backed, s
    <3>4. CASE totals[s] # None
      <4>1. /\ counted[s] + Delta(totals[s], usage[k]) <= growth[k]
            /\ \A w \in Workers : wpc[w] = "total" /\ item[w] = k =>
                 counted[s] + Delta(totals[s], sample[w]) + Delta(sample[w], usage[k])
                   <= growth[k]
        BY <2>1, <2>3, <3>4 DEF Backed, s
      <4>2. /\ Delta(totals[s], 0) = 0 /\ Delta(totals[s], usage[k]) \in Nat
            /\ \A w \in Workers : /\ Delta(sample[w], 0) = 0
                                  /\ Delta(sample[w], usage[k]) \in Nat
                                  /\ Delta(totals[s], sample[w]) \in Nat
        BY <3>2, <3>4, DeltaType
      <4>3. /\ counted[s] + Delta(totals[s], 0) <= growth[k]
            /\ \A w \in Workers : wpc[w] = "total" /\ item[w] = k =>
                 counted[s] + Delta(totals[s], sample[w]) + Delta(sample[w], 0)
                   <= growth[k]
        BY <3>2, <4>1, <4>2
      <4>4. QED
        BY <1>1, <1>2, <2>3, <3>4, <4>3 DEF Backed, s
    <3>5. QED
      BY <3>3, <3>4
  <2>4. QED
    BY <2>2, <2>3
<1>4. QED
  BY <1>1, <1>3 DEF Traffic, Alone, Labelled

\* A container works: the next delta grows by one at most.
LEMMA WorkTraffic ==
  ASSUME TypeOK, Traffic, NEW k \in Containers, Work(k)
  PROVE  Traffic'
<1>1. /\ UNCHANGED <<totals, counted, wpc, item, sample>>
      /\ usage' = [usage EXCEPT ![k] = @ + 1]
      /\ growth' = [growth EXCEPT ![k] = @ + 1]
  BY DEF Work, counts
<1>2. /\ usage'[k] = usage[k] + 1 /\ growth'[k] = growth[k] + 1
      /\ \A j \in Containers : j # k => usage'[j] = usage[j] /\ growth'[j] = growth[j]
      /\ growth' \in [Containers -> Nat]
  BY <1>1 DEF TypeOK, Traffic
<1>3. ASSUME NEW j \in Containers, Alone(j) PROVE Backed(j)'
  <2>1. Backed(j)
    BY <1>3 DEF Traffic
  <2>2. CASE j # k
    BY <1>1, <1>2, <2>1, <2>2 DEF Backed
  <2>3. CASE j = k
    <3> DEFINE s == Service[k]
    <3>1. s \in Services
      BY <1>3, <2>3, ServiceType DEF Alone
    <3>2. /\ growth[k] \in Nat /\ usage[k] \in Nat /\ counted[s] \in Nat
          /\ totals[s] # None => totals[s] \in Nat
          /\ \A w \in Workers : sample[w] \in Nat
      BY <3>1, UsageType
    <3>3. \A w \in Workers :
            /\ Delta(sample[w], usage[k]) \in Nat
            /\ Delta(sample[w], usage[k] + 1) \in Nat
            /\ Delta(sample[w], usage[k] + 1) <= Delta(sample[w], usage[k]) + 1
      BY <3>2, DeltaType
    <3> HIDE DEF s
    <3>4. CASE totals[s] = None
      <4>1. /\ counted[s] = 0
            /\ \A w \in Workers : wpc[w] = "total" /\ item[w] = k =>
                 Delta(sample[w], usage[k]) <= growth[k]
        BY <2>1, <2>3, <3>4 DEF Backed, s
      <4>2. \A w \in Workers : wpc[w] = "total" /\ item[w] = k =>
              Delta(sample[w], usage[k] + 1) <= growth[k] + 1
        BY <3>2, <3>3, <4>1
      <4>3. QED
        BY <1>1, <1>2, <2>3, <3>4, <4>1, <4>2 DEF Backed, s
    <3>5. CASE totals[s] # None
      <4>1. /\ counted[s] + Delta(totals[s], usage[k]) <= growth[k]
            /\ \A w \in Workers : wpc[w] = "total" /\ item[w] = k =>
                 counted[s] + Delta(totals[s], sample[w]) + Delta(sample[w], usage[k])
                   <= growth[k]
        BY <2>1, <2>3, <3>5 DEF Backed, s
      <4>2. /\ Delta(totals[s], usage[k]) \in Nat
            /\ Delta(totals[s], usage[k] + 1) \in Nat
            /\ Delta(totals[s], usage[k] + 1) <= Delta(totals[s], usage[k]) + 1
            /\ \A w \in Workers : Delta(totals[s], sample[w]) \in Nat
        BY <3>2, <3>5, DeltaType
      <4>3. /\ counted[s] + Delta(totals[s], usage[k] + 1) <= growth[k] + 1
            /\ \A w \in Workers : wpc[w] = "total" /\ item[w] = k =>
                 counted[s] + Delta(totals[s], sample[w])
                   + Delta(sample[w], usage[k] + 1) <= growth[k] + 1
        BY <3>2, <3>3, <4>1, <4>2
      <4>4. QED
        BY <1>1, <1>2, <2>3, <3>5, <4>3 DEF Backed, s
    <3>6. QED
      BY <3>4, <3>5
  <2>4. QED
    BY <2>2, <2>3
<1>4. QED
  BY <1>1, <1>2, <1>3 DEF Traffic, Alone, Labelled

\* A worker reads the usage of its container, or gives it up.
LEMMA StatsTraffic ==
  ASSUME TypeOK, Assigned, Traffic, NEW w \in Workers, Stats(w)
  PROVE  Traffic'
<1>1. wpc[w] = "stats" /\ UNCHANGED <<usage, growth, totals, counted>>
  BY DEF Stats, daemon, counts
<1>2. wpc \in [Workers -> {"done", "recv", "stats", "total", "cpu"}]
  BY DEF TypeOK
<1>3. CASE NextContainer(w)
  <2>1. /\ wpc' = [wpc EXCEPT ![w] = "recv"] /\ item' = [item EXCEPT ![w] = None]
        /\ sample' = [sample EXCEPT ![w] = 0]
    BY <1>3 DEF NextContainer, WorkerGoto
  <2>2. \A v \in Workers : wpc'[v] = "total" =>
          wpc[v] = "total" /\ item'[v] = item[v] /\ sample'[v] = sample[v]
    BY <1>2, <2>1 DEF TypeOK
  <2>3. QED
    BY <1>1, <2>2, TrafficFrame
<1>4. CASE /\ sample' = [sample EXCEPT ![w] = usage[item[w]]]
           /\ WorkerGoto(w, "total") /\ UNCHANGED item
  <2>1. /\ sample'[w] = usage[item[w]] /\ wpc'[w] = "total"
        /\ \A v \in Workers : v # w => sample'[v] = sample[v] /\ wpc'[v] = wpc[v]
    BY <1>2, <1>4 DEF WorkerGoto, TypeOK
  <2>2. ASSUME NEW j \in Containers, Alone(j) PROVE Backed(j)'
    <3>1. Backed(j)
      BY <2>2 DEF Traffic
    <3> DEFINE s == Service[j]
    <3>2. s \in Services
      BY <2>2, ServiceType DEF Alone
    <3>3. /\ growth[j] \in Nat /\ usage[j] \in Nat /\ counted[s] \in Nat
          /\ totals[s] # None => totals[s] \in Nat
      BY <3>2, UsageType
    <3>4. Delta(usage[j], usage[j]) = 0
      BY <3>3, DeltaType
    <3> HIDE DEF s
    <3>5. CASE totals[s] = None
      <4>1. /\ counted[s] = 0
            /\ \A v \in Workers : wpc[v] = "total" /\ item[v] = j =>
                 Delta(sample[v], usage[j]) <= growth[j]
        BY <3>1, <3>5 DEF Backed, s
      <4>2. \A v \in Workers : wpc'[v] = "total" /\ item[v] = j =>
              Delta(sample'[v], usage[j]) <= growth[j]
        BY <2>1, <3>3, <3>4, <4>1
      <4>3. QED
        BY <1>1, <1>4, <3>5, <4>1, <4>2 DEF Backed, s
    <3>6. CASE totals[s] # None
      <4>1. /\ counted[s] + Delta(totals[s], usage[j]) <= growth[j]
            /\ \A v \in Workers : wpc[v] = "total" /\ item[v] = j =>
                 counted[s] + Delta(totals[s], sample[v]) + Delta(sample[v], usage[j])
                   <= growth[j]
        BY <3>1, <3>6 DEF Backed, s
      <4>2. Delta(totals[s], usage[j]) \in Nat
        BY <3>3, <3>6, DeltaType
      <4>3. \A v \in Workers : wpc'[v] = "total" /\ item[v] = j =>
              counted[s] + Delta(totals[s], sample'[v]) + Delta(sample'[v], usage[j])
                <= growth[j]
        <5>1. SUFFICES ASSUME NEW v \in Workers, wpc'[v] = "total", item[v] = j
                       PROVE  counted[s] + Delta(totals[s], sample'[v])
                                + Delta(sample'[v], usage[j]) <= growth[j]
          OBVIOUS
        <5>2. CASE v = w
          <6>1. sample'[v] = usage[j]
            BY <2>1, <5>1, <5>2
          <6>2. counted[s] + Delta(totals[s], usage[j]) + 0 <= growth[j]
            BY <3>3, <4>1, <4>2
          <6>3. QED
            BY <3>4, <6>1, <6>2
        <5>3. CASE v # w
          BY <2>1, <4>1, <5>1, <5>3
        <5>4. QED
          BY <5>2, <5>3
      <4>4. QED
        BY <1>1, <1>4, <3>6, <4>1, <4>3 DEF Backed, s
    <3>7. QED
      BY <3>5, <3>6
  <2>3. QED
    BY <1>1, <2>2 DEF Traffic, Alone, Labelled
<1>5. QED
  BY <1>3, <1>4 DEF Stats

\* A worker records its total: only the container of that worker has it.
LEMMA TotalTraffic ==
  ASSUME TypeOK, Assigned, Traffic, NEW w \in Workers, Total(w)
  PROVE  Traffic'
<1> DEFINE k == item[w]
           s == Service[k]
<1>1. /\ wpc[w] = "total" /\ UNCHANGED <<usage, growth, item, sample>>
      /\ wpc' = [wpc EXCEPT ![w] = "cpu"]
      /\ \/ /\ totals' = [totals EXCEPT ![s] = sample[w]]
            /\ counted' = [counted EXCEPT ![s] =
                             IF totals[s] = None THEN @
                             ELSE @ + Delta(totals[s], sample[w])]
         \/ UNCHANGED <<totals, counted>>
  BY DEF Total, WorkerGoto, daemon, counts
<1>2. \A v \in Workers : wpc'[v] = "total" => wpc[v] = "total" /\ v # w
  BY <1>1 DEF TypeOK
<1>3. k \in Containers /\ Labelled(k)
  BY <1>1 DEF Assigned, Busy
<1>4. s \in Services
  BY <1>3, ServiceType
<1>5. \A v \in Workers : item[v] = k => v = w
  <2>1. k # None
    BY <1>3, DockerAssumption DEF DockerAssumption
  <2>2. QED
    BY <2>1 DEF Assigned
<1> HIDE DEF k, s
<1>6. CASE UNCHANGED <<totals, counted>>
  BY <1>1, <1>2, <1>6, TrafficFrame
<1>7. CASE /\ totals' = [totals EXCEPT ![s] = sample[w]]
           /\ counted' = [counted EXCEPT ![s] =
                            IF totals[s] = None THEN @
                            ELSE @ + Delta(totals[s], sample[w])]
  <2>1. /\ totals'[s] = sample[w]
        /\ counted'[s] = IF totals[s] = None THEN counted[s]
                         ELSE counted[s] + Delta(totals[s], sample[w])
        /\ \A r \in Services : r # s => totals'[r] = totals[r] /\ counted'[r] = counted[r]
    BY <1>4, <1>7 DEF TypeOK
  <2>2. ASSUME NEW j \in Containers, Alone(j) PROVE Backed(j)'
    <3>1. Backed(j) /\ Service[j] \in Services
      BY <2>2, ServiceType DEF Traffic, Alone
    <3>2. CASE Service[j] # s
      BY <1>1, <1>2, <2>1, <3>1, <3>2 DEF Backed
    <3>3. CASE Service[j] = s
      <4>1. j = k
        BY <1>3, <2>2, <3>3 DEF Alone, s
      <4>2. /\ growth[k] \in Nat /\ usage[k] \in Nat /\ counted[s] \in Nat
            /\ totals[s] # None => totals[s] \in Nat
            /\ sample[w] \in Nat /\ sample[w] # None
        BY <1>3, <1>4, UsageType
      <4>3. \A v \in Workers : ~(wpc'[v] = "total" /\ item[v] = k)
        BY <1>2, <1>5
      <4>4. item[w] = k
        BY DEF k
      <4>5. counted'[s] + Delta(sample[w], usage[k]) <= growth[k]
        <5>1. CASE totals[s] = None
          <6>1. counted[s] = 0 /\ Delta(sample[w], usage[k]) <= growth[k]
            BY <1>1, <3>1, <3>3, <4>1, <4>4, <5>1 DEF Backed
          <6>2. Delta(sample[w], usage[k]) \in Nat
            BY <4>2, DeltaType
          <6>3. QED
            BY <2>1, <5>1, <6>1, <6>2
        <5>2. CASE totals[s] # None
          BY <1>1, <2>1, <3>1, <3>3, <4>1, <4>4, <5>2 DEF Backed
        <5>3. QED
          BY <5>1, <5>2
      <4>6. QED
        BY <1>1, <2>1, <3>3, <4>1, <4>2, <4>3, <4>5 DEF Backed
    <3>4. QED
      BY <3>2, <3>3
  <2>3. \A r \in Services : (\A j \in Containers : Service[j] # r) => counted'[r] = 0
    <3>1. Service[k] = s
      BY DEF s
    <3>2. QED
      BY <1>3, <2>1, <3>1 DEF Traffic
  <2>4. QED
    BY <1>1, <2>2, <2>3 DEF Traffic, Alone, Labelled
<1>8. QED
  BY <1>1, <1>6, <1>7

-----------------------------------------------------------------------------
(* The steps                                                               *)

\* The daemon's steps concern the traffic only.
LEMMA DaemonStep ==
  ASSUME Inv, NEW k \in Containers, StartContainer(k) \/ StopContainer(k) \/ Work(k)
  PROVE  Inv'
<1>1. UNCHANGED <<pc, active, todo, ctxDone, wpc, item, sample, prev, totals, counted,
                  visited>>
  <2>1. CASE Work(k)
    BY <2>1 DEF Work, counts
  <2>2. CASE StartContainer(k)
    BY <2>2 DEF StartContainer, counts
  <2>3. CASE StopContainer(k)
    BY <2>3 DEF StopContainer, counts
  <2>4. QED
    BY <2>1, <2>2, <2>3
<1>2. TypeOK'
  <2>1. running' \subseteq Containers
    BY DEF Inv, TypeOK, StartContainer, StopContainer, Work
  <2>2. usage' \in [Containers -> 0..MaxUsage]
    <3>1. MaxUsage \in Nat /\ usage \in [Containers -> 0..MaxUsage]
      BY DockerAssumption DEF DockerAssumption, Inv, TypeOK
    <3>2. \/ usage' = [usage EXCEPT ![k] = 0]
          \/ usage' = usage
          \/ usage' = [usage EXCEPT ![k] = @ + 1] /\ usage[k] < MaxUsage
      BY DEF StartContainer, StopContainer, Work
    <3>3. QED
      BY <3>1, <3>2
  <2>3. QED
    BY <1>1, <2>1, <2>2 DEF Inv, TypeOK
<1>3. Assigned'
  BY <1>1 DEF Inv, Assigned, Labelled
<1>4. Shared'
  BY <1>1 DEF Inv, Shared
<1>5. PrevPruned'
  BY <1>1 DEF Inv, PrevPruned
<1>6. Traffic'
  <2>1. CASE StopContainer(k)
    BY <1>1, <2>1, TrafficFrame DEF StopContainer, Inv
  <2>2. QED
    BY <2>1, RestartTraffic, WorkTraffic DEF Inv
<1>7. QED
  BY <1>2, <1>3, <1>4, <1>5, <1>6 DEF Inv

LEMMA ListStep ==
  ASSUME Inv, NEW S \in SUBSET Containers, NEW W \in SUBSET Workers, List(S, W)
  PROVE  Inv'
<1>1. /\ pc = "idle" /\ S \subseteq running /\ active' = S /\ todo' = S
      /\ UNCHANGED <<running, usage, growth, ctxDone, item, sample, totals, counted,
                     visited>>
      /\ \/ S = {} /\ pc' = "idle" /\ prev' = Pruned({}) /\ UNCHANGED wpc
         \/ /\ S # {} /\ pc' = "send" /\ UNCHANGED prev
            /\ wpc' = [w \in Workers |-> IF w \in W THEN "recv" ELSE "done"]
  BY DEF List, daemon, counts
<1>2. /\ visited = {} /\ ~ctxDone /\ \A w \in Workers : wpc[w] = "done"
  BY <1>1 DEF Inv, Shared
<1>3. \A w \in Workers : item[w] = None
  BY <1>2 DEF Inv, Assigned, Busy
<1>4. \A w \in Workers : wpc'[w] \in {"recv", "done"}
  BY <1>1, <1>2
<1>5. TypeOK'
  <2>1. wpc' \in [Workers -> {"done", "recv", "stats", "total", "cpu"}]
    BY <1>1 DEF Inv, TypeOK
  <2>2. prev' \in [Containers -> 0..MaxUsage \cup {None}]
    BY <1>1 DEF Inv, TypeOK, Pruned
  <2>3. QED
    BY <1>1, <2>1, <2>2 DEF Inv, TypeOK
<1>6. Assigned'
  BY <1>1, <1>3, <1>4 DEF Assigned, Busy
<1>7. Shared'
  BY <1>1, <1>2 DEF Shared
<1>8. PrevPruned'
  BY <1>1 DEF PrevPruned, Pruned
<1>9. Traffic'
  BY <1>1, <1>4, TrafficFrame DEF Inv
<1>10. QED
  BY <1>5, <1>6, <1>7, <1>8, <1>9 DEF Inv

LEMMA HandStep ==
  ASSUME Inv, NEW w \in Workers, NEW k \in Containers, Hand(w, k)
  PROVE  Inv'
<1>1. /\ pc = "send" /\ k \in todo /\ wpc[w] = "recv"
      /\ todo' = todo \ {k} /\ visited' = visited \cup {k}
      /\ UNCHANGED <<running, usage, growth, pc, active, ctxDone, sample, prev,
                     totals, counted>>
      /\ \/ /\ Labelled(k) /\ wpc' = [wpc EXCEPT ![w] = "stats"]
            /\ item' = [item EXCEPT ![w] = k]
         \/ UNCHANGED <<wpc, item>>
  BY DEF Hand, daemon, counts
<1>2. /\ wpc \in [Workers -> {"done", "recv", "stats", "total", "cpu"}]
      /\ item \in [Workers -> Containers \cup {None}]
  BY DEF Inv, TypeOK
<1>3. k \notin visited /\ k \in active
  BY <1>1 DEF Inv, TypeOK, Shared
<1>4. \A v \in Workers : item[v] # k
  BY <1>3, DockerAssumption DEF Inv, Assigned, DockerAssumption
<1>5. TypeOK'
  BY <1>1, <1>2 DEF Inv, TypeOK
<1>6. Assigned'
  <2>1. CASE UNCHANGED <<wpc, item>>
    BY <1>1, <2>1 DEF Inv, Assigned, Labelled
  <2>2. CASE /\ Labelled(k) /\ wpc' = [wpc EXCEPT ![w] = "stats"]
             /\ item' = [item EXCEPT ![w] = k]
    <3>1. /\ wpc'[w] = "stats" /\ item'[w] = k
          /\ \A v \in Workers : v # w => wpc'[v] = wpc[v] /\ item'[v] = item[v]
      BY <1>2, <2>2
    <3>2. QED
      BY <1>1, <1>4, <2>2, <3>1 DEF Inv, Assigned, Labelled, Busy
  <2>3. QED
    BY <1>1, <2>1, <2>2
<1>7. Shared'
  BY <1>1, <1>3 DEF Inv, Shared
<1>8. PrevPruned'
  BY <1>1 DEF PrevPruned
<1>9. Traffic'
  <2>1. \A v \in Workers : wpc'[v] = "total" =>
          wpc[v] = "total" /\ item'[v] = item[v] /\ sample'[v] = sample[v]
    BY <1>1, <1>2
  <2>2. QED
    BY <1>1, <2>1, TrafficFrame DEF Inv
<1>10. QED
  BY <1>5, <1>6, <1>7, <1>8, <1>9 DEF Inv

\* The rest of Collect; no worker takes a step.
LEMMA LoopStep ==
  ASSUME Inv, Expire \/ BreakLoop \/ CloseChannel \/ Finish
  PROVE  Inv'
<1>1. UNCHANGED <<running, usage, growth, active, wpc, item, sample, totals, counted>>
  BY DEF Expire, BreakLoop, CloseChannel, Finish, daemon, counts
<1>2. Traffic'
  BY <1>1, TrafficFrame DEF Inv
<1>3. CASE Expire
  <2>1. /\ pc # "idle" /\ ctxDone' = TRUE /\ UNCHANGED <<pc, todo, prev, visited>>
    BY <1>3 DEF Expire
  <2>2. TypeOK' /\ Assigned' /\ Shared' /\ PrevPruned'
    BY <1>1, <2>1 DEF Inv, TypeOK, Assigned, Shared, PrevPruned, Labelled
  <2>3. QED
    BY <1>2, <2>2 DEF Inv
<1>4. CASE BreakLoop
  <2>1. pc = "send" /\ ctxDone /\ todo' = {} /\ UNCHANGED <<pc, ctxDone, prev, visited>>
    BY <1>4 DEF BreakLoop
  <2>2. TypeOK' /\ Assigned' /\ Shared' /\ PrevPruned'
    BY <1>1, <2>1 DEF Inv, TypeOK, Assigned, Shared, PrevPruned, Labelled
  <2>3. QED
    BY <1>2, <2>2 DEF Inv
<1>5. CASE CloseChannel
  <2>1. /\ pc = "send" /\ todo = {} /\ pc' = "wait"
        /\ UNCHANGED <<todo, ctxDone, prev, visited>>
    BY <1>5 DEF CloseChannel
  <2>2. TypeOK' /\ Assigned' /\ Shared' /\ PrevPruned'
    BY <1>1, <2>1 DEF Inv, TypeOK, Assigned, Shared, PrevPruned, Labelled
  <2>3. QED
    BY <1>2, <2>2 DEF Inv
<1>6. CASE Finish
  <2>1. /\ pc = "wait" /\ pc' = "idle" /\ prev' = Pruned(active)
        /\ ctxDone' = FALSE /\ visited' = {} /\ UNCHANGED todo
        /\ \A w \in Workers : wpc[w] = "done"
    BY <1>6 DEF Finish
  <2>2. TypeOK'
    BY <1>1, <2>1 DEF Inv, TypeOK, Pruned
  <2>3. Assigned'
    BY <1>1, <2>1 DEF Inv, Assigned, Busy
  <2>4. Shared'
    BY <1>1, <2>1 DEF Inv, Shared
  <2>5. PrevPruned'
    BY <1>1, <2>1 DEF PrevPruned, Pruned
  <2>6. QED
    BY <1>2, <2>2, <2>3, <2>4, <2>5 DEF Inv
<1>7. QED
  BY <1>3, <1>4, <1>5, <1>6

LEMMA WorkerSteps ==
  ASSUME Inv, NEW w \in Workers, WorkerStep(w)
  PROVE  Inv'
<1>1. /\ UNCHANGED <<running, usage, growth, pc, active, todo, ctxDone, visited>>
      /\ wpc[w] # "done"
  BY DEF WorkerStep, Stats, Total, Cpu, WorkerEnd, daemon
<1>2. /\ wpc \in [Workers -> {"done", "recv", "stats", "total", "cpu"}]
      /\ item \in [Workers -> Containers \cup {None}]
      /\ sample \in [Workers -> 0..MaxUsage]
      /\ usage \in [Containers -> 0..MaxUsage]
      /\ prev \in [Containers -> 0..MaxUsage \cup {None}]
      /\ MaxUsage \in Nat
  BY DockerAssumption DEF Inv, TypeOK, DockerAssumption
<1>3. pc # "idle"
  BY <1>1 DEF Inv, Shared
<1>4. Shared' /\ PrevPruned'
  BY <1>1, <1>3 DEF Inv, Shared, PrevPruned
<1>5. ASSUME wpc[w] \in Busy
      PROVE  item[w] \in Containers /\ Labelled(item[w]) /\ Service[item[w]] \in Services
  BY <1>5, ServiceType DEF Inv, Assigned
\* collectContainer returns, with prev as it was or with a sample of this container
<1>6. ASSUME NextContainer(w), UNCHANGED <<totals, counted>>,
             prev' \in [Containers -> 0..MaxUsage \cup {None}]
      PROVE  Inv'
  <2>1. /\ wpc' = [wpc EXCEPT ![w] = "recv"] /\ item' = [item EXCEPT ![w] = None]
        /\ sample' = [sample EXCEPT ![w] = 0]
    BY <1>6 DEF NextContainer, WorkerGoto
  <2>2. TypeOK'
    BY <1>1, <1>2, <1>6, <2>1 DEF Inv, TypeOK
  <2>3. /\ wpc'[w] = "recv" /\ item'[w] = None
        /\ \A v \in Workers : v # w => /\ wpc'[v] = wpc[v] /\ item'[v] = item[v]
                                       /\ sample'[v] = sample[v]
    BY <1>2, <2>1
  <2>4. Assigned'
    BY <1>1, <2>3 DEF Inv, Assigned, Busy, Labelled
  <2>5. \A v \in Workers : wpc'[v] = "total" =>
          wpc[v] = "total" /\ item'[v] = item[v] /\ sample'[v] = sample[v]
    BY <2>3
  <2>6. Traffic'
    BY <1>1, <1>6, <2>5, TrafficFrame DEF Inv
  <2>7. QED
    BY <1>4, <2>2, <2>4, <2>6 DEF Inv
\* a worker goes on with its container
<1>7. ASSUME NEW l \in Busy, wpc[w] \in Busy, WorkerGoto(w, l), UNCHANGED item
      PROVE  Assigned' /\ wpc' \in [Workers -> {"done", "recv", "stats", "total", "cpu"}]
  <2>1. /\ wpc' \in [Workers -> {"done", "recv", "stats", "total", "cpu"}]
        /\ wpc'[w] = l /\ \A v \in Workers : v # w => wpc'[v] = wpc[v]
    BY <1>2, <1>7 DEF WorkerGoto, Busy
  <2>2. QED
    BY <1>1, <1>7, <2>1 DEF Inv, Assigned, Labelled
<1>8. CASE Stats(w)
  <2>1. wpc[w] = "stats" /\ UNCHANGED <<prev, totals, counted>>
    BY <1>8 DEF Stats, counts
  <2>2. CASE NextContainer(w)
    BY <1>2, <1>6, <2>1, <2>2
  <2>3. CASE /\ sample' = [sample EXCEPT ![w] = usage[item[w]]]
             /\ WorkerGoto(w, "total") /\ UNCHANGED item
    <3>1. Assigned' /\ wpc' \in [Workers -> {"done", "recv", "stats", "total", "cpu"}]
      BY <1>7, <2>1, <2>3 DEF Busy
    <3>2. sample' \in [Workers -> 0..MaxUsage]
      BY <1>2, <1>5, <2>1, <2>3 DEF Busy
    <3>3. TypeOK'
      BY <1>1, <2>1, <2>3, <3>1, <3>2 DEF Inv, TypeOK
    <3>4. QED
      BY <1>4, <1>8, <3>1, <3>3, StatsTraffic DEF Inv
  <2>4. QED
    BY <1>8, <2>2, <2>3 DEF Stats
<1>9. CASE Total(w)
  <2> DEFINE s == Service[item[w]]
  <2>1. /\ wpc[w] = "total" /\ WorkerGoto(w, "cpu") /\ UNCHANGED <<item, sample, prev>>
        /\ \/ /\ totals' = [totals EXCEPT ![s] = sample[w]]
              /\ counted' = [counted EXCEPT ![s] =
                               IF totals[s] = None THEN @
                               ELSE @ + Delta(totals[s], sample[w])]
           \/ UNCHANGED <<totals, counted>>
    BY <1>9 DEF Total, counts
  <2>2. Assigned' /\ wpc' \in [Workers -> {"done", "recv", "stats", "total", "cpu"}]
    BY <1>7, <2>1 DEF Busy
  <2>3. s \in Services /\ sample[w] \in 0..MaxUsage
    BY <1>2, <1>5, <2>1 DEF Busy
  <2>4. totals[s] # None => Delta(totals[s], sample[w]) \in Nat
    <3>1. sample[w] \in Nat /\ (totals[s] # None => totals[s] \in Nat)
      BY <2>3, UsageType DEF Inv
    <3>2. QED
      BY <3>1, DeltaType
  <2> HIDE DEF s
  <2>5. totals' \in [Services -> 0..MaxUsage \cup {None}] /\ counted' \in [Services -> Nat]
    <3>1. /\ totals \in [Services -> 0..MaxUsage \cup {None}]
          /\ counted \in [Services -> Nat]
      BY DEF Inv, TypeOK
    <3>2. QED
      BY <2>1, <2>3, <2>4, <3>1
  <2>6. TypeOK'
    BY <1>1, <2>1, <2>2, <2>5 DEF Inv, TypeOK
  <2>7. QED
    BY <1>4, <1>9, <2>2, <2>6, TotalTraffic DEF Inv
<1>10. CASE Cpu(w)
  <2>1. /\ wpc[w] = "cpu" /\ NextContainer(w) /\ UNCHANGED <<totals, counted>>
        /\ prev' = IF sample[w] = 0 THEN prev ELSE [prev EXCEPT ![item[w]] = sample[w]]
    BY <1>10 DEF Cpu, counts
  <2>2. prev' \in [Containers -> 0..MaxUsage \cup {None}]
    BY <1>2, <2>1
  <2>3. QED
    BY <1>6, <2>1, <2>2
<1>11. CASE WorkerEnd(w)
  <2>1. /\ wpc[w] = "recv" /\ wpc' = [wpc EXCEPT ![w] = "done"]
        /\ UNCHANGED <<item, sample, prev, totals, counted>>
    BY <1>11 DEF WorkerEnd, WorkerGoto, counts
  <2>2. /\ wpc'[w] = "done" /\ \A v \in Workers : v # w => wpc'[v] = wpc[v]
        /\ wpc' \in [Workers -> {"done", "recv", "stats", "total", "cpu"}]
    BY <1>2, <2>1
  <2>3. TypeOK'
    BY <1>1, <2>1, <2>2 DEF Inv, TypeOK
  <2>4. Assigned'
    BY <1>1, <2>1, <2>2 DEF Inv, Assigned, Busy, Labelled
  <2>5. \A v \in Workers : wpc'[v] = "total" => wpc[v] = "total"
    BY <2>2
  <2>6. Traffic'
    BY <1>1, <2>1, <2>5, TrafficFrame DEF Inv
  <2>7. QED
    BY <1>4, <2>3, <2>4, <2>6 DEF Inv
<1>12. QED
  BY <1>8, <1>9, <1>10, <1>11 DEF WorkerStep

LEMMA DockerInit == Init => Inv
<1>1. SUFFICES ASSUME Init PROVE Inv
  OBVIOUS
<1>2. MaxUsage \in Nat
  BY DockerAssumption DEF DockerAssumption
<1>3. TypeOK
  <2>1. 0 \in 0..MaxUsage /\ 0 \in Nat
    BY <1>2
  <2>2. /\ running = {} /\ pc = "idle" /\ active = {} /\ todo = {} /\ ctxDone = FALSE
        /\ usage = [k \in Containers |-> 0] /\ prev = [k \in Containers |-> None]
        /\ wpc = [w \in Workers |-> "done"] /\ item = [w \in Workers |-> None]
        /\ sample = [w \in Workers |-> 0]
        /\ totals = [s \in Services |-> None] /\ counted = [s \in Services |-> 0]
    BY <1>1 DEF Init
  <2>3. QED
    BY <2>1, <2>2 DEF TypeOK
<1>4. Assigned
  BY <1>1 DEF Init, Assigned, Busy
<1>5. Shared /\ PrevPruned
  BY <1>1 DEF Init, Shared, PrevPruned
<1>6. Traffic
  <2>1. ASSUME NEW k \in Containers, Alone(k) PROVE Backed(k)
    <3>1. Service[k] \in Services
      BY <2>1, ServiceType DEF Alone
    <3>2. totals[Service[k]] = None /\ counted[Service[k]] = 0
          /\ \A w \in Workers : wpc[w] # "total"
      BY <1>1, <3>1 DEF Init
    <3>3. QED
      BY <3>2 DEF Backed
  <2>2. QED
    BY <1>1, <2>1 DEF Init, Traffic
<1>7. QED
  BY <1>3, <1>4, <1>5, <1>6 DEF Inv

LEMMA DockerStep == Inv /\ [Next]_vars => Inv'
<1>1. SUFFICES ASSUME Inv, [Next]_vars PROVE Inv'
  OBVIOUS
<1>2. CASE UNCHANGED vars
  <2>1. UNCHANGED <<running, usage, pc, active, todo, ctxDone, wpc, item, sample, prev,
                    totals, counted, growth, visited>>
    BY <1>2 DEF vars
  <2>2. TypeOK' /\ Assigned' /\ Shared' /\ PrevPruned'
    BY <1>1, <2>1 DEF Inv, TypeOK, Assigned, Shared, PrevPruned, Labelled
  <2>3. Traffic'
    BY <1>1, <2>1, TrafficFrame DEF Inv
  <2>4. QED
    BY <2>2, <2>3 DEF Inv
<1>3. QED
  BY <1>1, <1>2, DaemonStep, ListStep, HandStep, LoopStep, WorkerSteps
     DEF Next, CollectStep

LEMMA DockerInv == Spec => []Inv
BY DockerInit, DockerStep, PTL DEF Spec

-----------------------------------------------------------------------------
(* The theorems                                                            *)

\* prev does not grow with the containers that come and go, for any number of
\* containers and workers: between collections it holds only containers of the last
\* list (cpu.go:44-50, 87-93).
THEOREM DockerPrevPruned == Spec => []PrevPruned
<1>1. Inv => PrevPruned
  BY DEF Inv
<1>2. QED
  BY <1>1, DockerInv, PTL

\* For any number of containers and workers: no listed container is passed over
\* unless the time is up, and none is read by two workers (cpu.go:66-85).
THEOREM DockerVisitsEach == Spec => []VisitsEach
<1>1. Inv => VisitsEach
  BY DEF Inv, Assigned, Shared, VisitsEach
<1>2. QED
  BY <1>1, DockerInv, PTL

\* What a sum over at most one container is.
LEMMA SumOfOne ==
  ASSUME NEW g, NEW k, g[k] \in Nat
  PROVE  MapThenSumSet(LAMBDA j : g[j], {k}) = g[k]
<1> DEFINE Eqn(f) == f = [s \in SUBSET {k} |->
                            IF s = {} THEN 0
                            ELSE g[CHOOSE x \in s : TRUE] + f[s \ {CHOOSE x \in s : TRUE}]]
           F == CHOOSE f : Eqn(f)
           G == [s \in SUBSET {k} |-> IF s = {} THEN 0 ELSE g[k]]
<1>1. SUBSET {k} = {{}, {k}}
  OBVIOUS
<1>2. (CHOOSE x \in {k} : TRUE) = k
  OBVIOUS
<1>3. Eqn(G)
  <2>1. G[{}] = 0 /\ G[{k}] = g[k]
    OBVIOUS
  <2>2. {k} \ {k} = {} /\ {k} # {}
    OBVIOUS
  <2>3. \A s \in SUBSET {k} :
          G[s] = IF s = {} THEN 0
                 ELSE g[CHOOSE x \in s : TRUE] + G[s \ {CHOOSE x \in s : TRUE}]
    <3> HIDE DEF G
    <3>1. QED
      BY <1>1, <1>2, <2>1, <2>2
  <2>4. QED
    BY <2>3
<1>4. Eqn(F)
  BY <1>3
<1>5. MapThenSumSet(LAMBDA j : g[j], {k}) = F[{k}]
  BY DEF MapThenSumSet, MapThenFoldSet
<1> HIDE DEF F, G
<1>6. F[{}] = 0 /\ F[{k}] = g[k] + F[{}]
  <2>1. {k} \ {k} = {} /\ {k} # {} /\ {k} \in SUBSET {k} /\ {} \in SUBSET {k}
    OBVIOUS
  <2>2. QED
    BY <1>2, <1>4, <2>1
<1>7. QED
  BY <1>5, <1>6

\* Where every service has one container at most, no traffic is counted that did not
\* happen, for any number of containers, services and workers, through all restarts,
\* lost totals and failed requests (cpu.go:186-201, client.go:380-406).  Replicas of a
\* service share its series, and for those it does not hold.
THEOREM DockerCountedIsTraffic ==
  ASSUME \A j, k \in Containers : Labelled(k) /\ Service[j] = Service[k] => j = k
  PROVE  Spec => []CountedIsTraffic
<1>1. Inv => CountedIsTraffic
  <2>1. SUFFICES ASSUME Inv, NEW s \in Services
                 PROVE  counted[s] <= MapThenSumSet(LAMBDA k : growth[k],
                                        {k \in Containers : Service[k] = s})
    BY DEF CountedIsTraffic
  <2>2. /\ \A k \in Containers : usage[k] \in Nat /\ growth[k] \in Nat
        /\ \A w \in Workers : sample[w] \in Nat
        /\ counted[s] \in Nat /\ (totals[s] # None => totals[s] \in Nat)
    BY <2>1, UsageType DEF Inv
  <2>3. CASE \E k \in Containers : Service[k] = s
    <3>1. PICK k \in Containers : Service[k] = s
      BY <2>3
    <3>2. Labelled(k)
      BY <3>1, DockerAssumption DEF Labelled, DockerAssumption
    <3>3. {j \in Containers : Service[j] = s} = {k} /\ Alone(k)
      BY <3>1, <3>2 DEF Alone
    <3>4. Backed(k)
      BY <2>1, <3>3 DEF Inv, Traffic
    <3>5. counted[s] <= growth[k]
      <4>1. CASE totals[s] = None
        BY <2>2, <3>1, <3>4, <4>1 DEF Backed
      <4>2. CASE totals[s] # None
        <5>1. counted[s] + Delta(totals[s], usage[k]) <= growth[k]
          BY <3>1, <3>4, <4>2 DEF Backed
        <5>2. Delta(totals[s], usage[k]) \in Nat
          BY <2>2, <4>2, DeltaType
        <5>3. QED
          BY <2>2, <5>1, <5>2
      <4>3. QED
        BY <4>1, <4>2
    <3>6. MapThenSumSet(LAMBDA j : growth[j], {k}) = growth[k]
      BY <2>2, SumOfOne
    <3>7. QED
      BY <3>3, <3>5, <3>6
  <2>4. CASE \A k \in Containers : Service[k] # s
    <3>1. {k \in Containers : Service[k] = s} = {} /\ counted[s] = 0
      BY <2>1, <2>4 DEF Inv, Traffic
    <3>2. MapThenSumSet(LAMBDA k : growth[k], {}) = 0
      BY DEF MapThenSumSet, MapThenFoldSet
    <3>3. QED
      BY <3>1, <3>2
  <2>5. QED
    BY <2>3, <2>4
<1>2. QED
  BY <1>1, DockerInv, PTL

=============================================================================
