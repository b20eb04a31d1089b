-------------------------- MODULE DockerCollector --------------------------
(***************************************************************************)
(* The Docker collector (internal/collectors/docker/cpu.go).  A collection *)
(* lists the running containers and hands them over an unbuffered channel  *)
(* to worker goroutines, which fetch the statistics of each, record its    *)
(* network traffic with Total under the label of its service, and compute  *)
(* its CPU usage from the previous sample in prev.                         *)
(*                                                                         *)
(* A container has one ever growing number that stands for its traffic and *)
(* its CPU time alike.  Total is modelled down to the delta that the       *)
(* client's worker emits (client.go:380-406).  Totals enter the client's   *)
(* queue and leave it in the same order, so each is applied at once.       *)
(***************************************************************************)
EXTENDS Naturals, FiniteSets, FiniteSetsExt

CONSTANTS
  Containers,
  Services,
  Service,          \* container -> the value of its label, or NoService
  NoService,        \* a container with neither service label nor name
  Workers,          \* as many as the collector's concurrency
  MaxContainers,    \* the limit of the list request
  MaxUsage,         \* bound on the usage of a container
  MaxGrowth,        \* container -> bound on its growth over all its restarts
  None

ASSUME DockerAssumption ==
  /\ Service \in [Containers -> Services \cup {NoService}]
  /\ NoService \notin Services
  /\ None \notin Containers \cup Nat
  /\ MaxContainers \in Nat \ {0} /\ MaxUsage \in Nat /\ MaxGrowth \in [Containers -> Nat]

VARIABLES
  \* the Docker daemon
  running,    \* the containers that run
  usage,      \* container -> usage since its last start
  \* the collector
  pc,         \* "idle", "send" (the sendLoop) or "wait" (wg.Wait)
  active,     \* the containers of the last list
  todo,       \* those not yet handed to a worker
  ctxDone,    \* the context of this collection is done
  wpc,        \* worker -> "done", "recv", "stats", "total", "cpu"
  item,       \* worker -> its container
  sample,     \* worker -> the usage it has read
  prev,       \* container -> usage of its previous sample, or None
  \* the client
  totals,     \* service -> the last total, or None
  counted,    \* service -> sum of the deltas emitted
  \* history, for the properties only
  growth,     \* container -> how much its usage has grown in all
  visited     \* containers handed to a worker in this collection

daemon == <<running, usage, growth>>
counts == <<totals, counted>>
vars == <<running, usage, pc, active, todo, ctxDone, wpc, item, sample, prev,
          totals, counted, growth, visited>>

Init ==
  /\ running = {}
  /\ usage = [k \in Containers |-> 0]
  /\ growth = [k \in Containers |-> 0]
  /\ pc = "idle"
  /\ active = {} /\ todo = {} /\ visited = {}
  /\ ctxDone = FALSE
  /\ wpc = [w \in Workers |-> "done"]
  /\ item = [w \in Workers |-> None]
  /\ sample = [w \in Workers |-> 0]
  /\ prev = [k \in Containers |-> None]
  /\ totals = [s \in Services |-> None]
  /\ counted = [s \in Services |-> 0]

-----------------------------------------------------------------------------
(* The daemon (external)                                                   *)

\* A container starts or restarts, with its counters at 0 and the same id.
StartContainer(k) ==
  /\ running' = running \cup {k}
  /\ usage' = [usage EXCEPT ![k] = 0]
  /\ UNCHANGED <<pc, active, todo, ctxDone, wpc, item, sample, prev, counts,
                 growth, visited>>

StopContainer(k) ==
  /\ k \in running
  /\ running' = running \ {k}
  /\ UNCHANGED <<usage, growth, pc, active, todo, ctxDone, wpc, item, sample,
                 prev, counts, visited>>

Work(k) ==
  /\ k \in running
  /\ usage[k] < MaxUsage /\ growth[k] < MaxGrowth[k]
  /\ usage' = [usage EXCEPT ![k] = @ + 1]
  /\ growth' = [growth EXCEPT ![k] = @ + 1]
  /\ UNCHANGED <<running, pc, active, todo, ctxDone, wpc, item, sample, prev,
                 counts, visited>>

-----------------------------------------------------------------------------
(* Collect                                                                 *)

\* Mutant: containers that are gone stay in prev.
Pruned_All(S) == prev

\* prev without the containers that are not in S.
Pruned(S) == [k \in Containers |-> IF k \in S THEN prev[k] ELSE None]

\* The list request succeeds, with all running containers or MaxContainers of
\* them.  Without containers the collection ends; otherwise workers start, no
\* more than there are containers.  A failed request changes nothing.
List(S, W) ==
  /\ pc = "idle"
  /\ S \subseteq running
  /\ S = running \/ Cardinality(S) = MaxContainers
  /\ Cardinality(S) <= MaxContainers
  /\ W \subseteq Workers
  /\ IF Cardinality(S) < Cardinality(Workers)
       THEN Cardinality(W) = Cardinality(S) ELSE W = Workers
  /\ active' = S
  /\ todo' = S
  /\ IF S = {}
       THEN pc' = "idle" /\ prev' = Pruned({}) /\ UNCHANGED wpc
       ELSE /\ pc' = "send"
            /\ wpc' = [w \in Workers |-> IF w \in W THEN "recv" ELSE "done"]
            /\ UNCHANGED prev
  /\ UNCHANGED <<daemon, ctxDone, item, sample, counts, visited>>

\* The deadline of the collection passes, or the agent stops.
Expire ==
  /\ pc # "idle" /\ ~ctxDone
  /\ ctxDone' = TRUE
  /\ UNCHANGED <<daemon, pc, active, todo, wpc, item, sample, prev, counts,
                 visited>>

\* containerLabelValue: the service, or else the name, of a container.
Labelled(k) == Service[k] # NoService

\* workCh <- ctr: a worker that waits receives it.  One without a label has
\* nothing to record.
Hand(w, k) ==
  /\ pc = "send"
  /\ k \in todo
  /\ wpc[w] = "recv"
  /\ todo' = todo \ {k}
  /\ visited' = visited \cup {k}
  /\ IF Labelled(k)
       THEN /\ wpc' = [wpc EXCEPT ![w] = "stats"]
            /\ item' = [item EXCEPT ![w] = k]
       ELSE UNCHANGED <<wpc, item>>
  /\ UNCHANGED <<daemon, pc, active, ctxDone, sample, prev, counts>>

\* Mutant: a default case ends the loop when no worker is ready to receive.
BreakLoop_Default ==
  /\ pc = "send"
  /\ todo # {}
  /\ todo' = {}
  /\ UNCHANGED <<daemon, pc, active, ctxDone, wpc, item, sample, prev, counts,
                 visited>>

\* case <-ctx.Done() of the sendLoop
BreakLoop ==
  /\ pc = "send"
  /\ todo # {}
  /\ ctxDone
  /\ todo' = {}
  /\ UNCHANGED <<daemon, pc, active, ctxDone, wpc, item, sample, prev, counts,
                 visited>>

\* Mutant: the channel is closed only after the workers have ended.
CloseChannel_AfterWait ==
  /\ pc = "send"
  /\ todo = {}
  /\ \A w \in Workers : wpc[w] = "done"
  /\ pc' = "wait"
  /\ UNCHANGED <<daemon, active, todo, ctxDone, wpc, item, sample, prev, counts,
                 visited>>

\* close(workCh)
CloseChannel ==
  /\ pc = "send"
  /\ todo = {}
  /\ pc' = "wait"
  /\ UNCHANGED <<daemon, active, todo, ctxDone, wpc, item, sample, prev, counts,
                 visited>>

\* The workers have ended: forget the containers that were not listed.
Finish ==
  /\ pc = "wait"
  /\ \A w \in Workers : wpc[w] = "done"
  /\ pc' = "idle"
  /\ prev' = Pruned(active)
  /\ ctxDone' = FALSE
  /\ visited' = {}
  /\ UNCHANGED <<daemon, active, todo, wpc, item, sample, counts>>

CollectStep ==
  \/ BreakLoop \/ CloseChannel \/ Finish
  \/ \E w \in Workers, k \in Containers : Hand(w, k)

-----------------------------------------------------------------------------
(* The workers: collectContainer                                           *)

WorkerGoto(w, label) == wpc' = [wpc EXCEPT ![w] = label]

\* collectContainer returns.
NextContainer(w) ==
  /\ WorkerGoto(w, "recv")
  /\ item' = [item EXCEPT ![w] = None]
  /\ sample' = [sample EXCEPT ![w] = 0]

\* doJSON can succeed: the daemon knows the container, and there is time left.
Reachable(k) == k \in running /\ ~ctxDone

\* getStats and getRestartCount; a request that fails ends with this container.
Stats(w) ==
  /\ wpc[w] = "stats"
  /\ \/ /\ Reachable(item[w])
        /\ sample' = [sample EXCEPT ![w] = usage[item[w]]]
        /\ WorkerGoto(w, "total")
        /\ UNCHANGED item
     \/ NextContainer(w)
  /\ UNCHANGED <<daemon, pc, active, todo, ctxDone, prev, counts, visited>>

\* Mutant: after a reset the whole new total counts.
Delta_AfterReset(last, total) == IF total > last THEN total - last ELSE total

\* What applyTotal passes on: nothing for a total below the last one.
Delta(last, total) == IF total > last THEN total - last ELSE 0

\* statok.Total with the label of the service; a total lost to a full queue
\* changes nothing.
Total(w) ==
  /\ wpc[w] = "total"
  /\ LET s == Service[item[w]] IN
       \/ /\ totals' = [totals EXCEPT ![s] = sample[w]]
          /\ counted' = [counted EXCEPT ![s] =
                 IF totals[s] = None THEN @
                 ELSE @ + Delta(totals[s], sample[w])]
       \/ UNCHANGED counts
  /\ WorkerGoto(w, "cpu")
  /\ UNCHANGED <<daemon, pc, active, todo, ctxDone, item, sample, prev, visited>>

\* Exchange the sample with prev under the mutex and compute the CPU usage from
\* the two; a container that has used no CPU yet is left out.
Cpu(w) ==
  /\ wpc[w] = "cpu"
  /\ prev' = IF sample[w] = 0 THEN prev
             ELSE [prev EXCEPT ![item[w]] = sample[w]]
  /\ NextContainer(w)
  /\ UNCHANGED <<daemon, pc, active, todo, ctxDone, counts, visited>>

\* The channel is closed.
WorkerEnd(w) ==
  /\ wpc[w] = "recv"
  /\ pc = "wait"
  /\ WorkerGoto(w, "done")
  /\ UNCHANGED <<daemon, pc, active, todo, ctxDone, item, sample, prev, counts,
                 visited>>

WorkerStep(w) == Stats(w) \/ Total(w) \/ Cpu(w) \/ WorkerEnd(w)

Next ==
  \/ \E k \in Containers : StartContainer(k) \/ StopContainer(k) \/ Work(k)
  \/ \E S \in SUBSET Containers, W \in SUBSET Workers : List(S, W)
  \/ Expire \/ CollectStep
  \/ \E w \in Workers : WorkerStep(w)

Spec == Init /\ [][Next]_vars

(***************************************************************************)
(* Goroutines that can run do run; a request to the daemon ends, with the  *)
(* deadline of the collection at the latest.                               *)
(***************************************************************************)
FairSpec ==
  /\ Spec
  /\ WF_vars(CollectStep)
  /\ \A w \in Workers : WF_vars(WorkerStep(w))

-----------------------------------------------------------------------------
(* Properties                                                              *)

\* Type correctness of the collector.
TypeOK ==
  /\ running \subseteq Containers
  /\ usage \in [Containers -> 0..MaxUsage]
  /\ pc \in {"idle", "send", "wait"}
  /\ active \subseteq Containers /\ todo \subseteq active
  /\ ctxDone \in BOOLEAN
  /\ wpc \in [Workers -> {"done", "recv", "stats", "total", "cpu"}]
  /\ item \in [Workers -> Containers \cup {None}]
  /\ sample \in [Workers -> 0..MaxUsage]
  /\ prev \in [Containers -> 0..MaxUsage \cup {None}]
  /\ totals \in [Services -> 0..MaxUsage \cup {None}]
  /\ counted \in [Services -> Nat]

\* prev does not grow with the containers that come and go: between collections
\* it holds only containers of the last list, whatever worker wrote it last
\* (cpu.go:44-50, 87-93).
PrevPruned ==
  pc = "idle" => \A k \in Containers : prev[k] # None => k \in active

\* No listed container is passed over, unless the time is up, and none is read by
\* two workers (cpu.go:66-85).
VisitsEach ==
  /\ TypeOK
  /\ pc = "wait" /\ ~ctxDone => visited = active
  /\ \A v, w \in Workers : item[v] = item[w] /\ item[v] # None => v = w

\* The traffic counted for a service is traffic of its containers: restarts,
\* lost totals and failed requests may lose some of it but never add any
\* (cpu.go:186-201, client.go:380-406; "count metrics are deltas over the
\* collection interval", cmd/statok-hostmetrics/README.md:9).
CountedIsTraffic ==
  \A s \in Services :
    counted[s] <= MapThenSumSet(LAMBDA k : growth[k],
                                {k \in Containers : Service[k] = s})

\* A collection ends: the workers take what they are handed and see the channel
\* closed (cpu.go:66-85).
CollectReturns == pc # "idle" ~> pc = "idle"

=============================================================================
