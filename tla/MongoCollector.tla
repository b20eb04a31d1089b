--------------------------- MODULE MongoCollector ---------------------------
(***************************************************************************)
(* The Mongo collector (internal/collectors/mongo/collector.go).  It keeps *)
(* a connection to each configured instance from one collection to the     *)
(* next.  A collection visits the instances in order under one deadline,   *)
(* gives each an operation timeout, leaves an instance that failed alone   *)
(* for the retry interval, and reports latencies as the difference to the  *)
(* previous status it read.                                                *)
(*                                                                         *)
(* Time is counted in units of the timeouts.  nextAttempt is compared only *)
(* with the start of a collection, so it is kept as what is left of it     *)
(* then.  One pair of counters stands for the three of opLatencies.  The   *)
(* servers and the driver are external.                                    *)
(***************************************************************************)
EXTENDS Naturals, FiniteSetsExt

CONSTANTS
  N,              \* number of instances
  Malformed,      \* instances whose URI the driver refuses
  Need,           \* instance -> time that a call to it takes
  Deadline,       \* CollectTimeout of the agent
  OpTimeout,      \* opTimeout
  Grace,          \* bound of resetClient on Disconnect
  RetryEvery,     \* retryEvery, counted in collection intervals
  Gaps,           \* intervals from one collection to the next
  Busy,           \* bound: the instances that have clients besides the agent
  MaxOps,         \* bound on the counters of a server
  None

Instances == 1..N

ASSUME MongoAssumption ==
  /\ N \in Nat /\ Malformed \subseteq Instances
  /\ Need \in [Instances -> Nat]
  /\ Deadline \in Nat \ {0} /\ OpTimeout \in Nat \ {0} /\ Grace \in Nat
  /\ RetryEvery \in Nat \ {0} /\ Gaps \subseteq Nat \ {0}
  /\ Busy \subseteq Instances /\ MaxOps \in Nat
  /\ None \notin Nat

Latencies == [ops : 0..MaxOps, latency : 0..MaxOps]

Zero == [ops |-> 0, latency |-> 0]

VARIABLES
  \* the servers and the driver
  server,     \* instance -> "up", "refusing" or "hanging"
  counters,   \* instance -> its opLatencies since its start
  conns,      \* instance -> number of driver clients not disconnected
  cancelled,  \* the agent is shutting down
  \* the collector
  pc,         \* "idle", "loop", "connect", "ping", "status", "closed"
  at,         \* the loop's i
  elapsed,    \* time since the start of the collection
  opEnd,      \* deadline of opCtx, on the same clock
  wait,       \* instance -> what is left until nextAttempt
  client,     \* instance -> inst.client is set
  prev,       \* instance -> prevOpLat, or None without hasPrevLat
  \* history, for the properties only
  work,       \* instance -> work since the status in prev
  report      \* instance -> the last differences, with the work they cover

vars == <<server, counters, conns, cancelled, pc, at, elapsed, opEnd, wait,
          client, prev, work, report>>

Init ==
  /\ server \in [Instances -> {"up", "refusing", "hanging"}]
  /\ counters = [i \in Instances |-> Zero]
  /\ conns = [i \in Instances |-> 0]
  /\ cancelled = FALSE
  /\ pc = "idle" /\ at = 0 /\ elapsed = 0 /\ opEnd = 0
  /\ wait = [i \in Instances |-> 0]
  /\ client = [i \in Instances |-> FALSE]
  /\ prev = [i \in Instances |-> None]
  /\ work = [i \in Instances |-> Zero]
  /\ report = [i \in Instances |-> None]

-----------------------------------------------------------------------------
(* The servers.  A restart resets the counters and may go unnoticed.       *)

Turn(i) ==
  /\ \E s \in {"up", "refusing", "hanging"} \ {server[i]} :
       server' = [server EXCEPT ![i] = s]
  /\ UNCHANGED <<counters, conns, cancelled, pc, at, elapsed, opEnd, wait,
                 client, prev, work, report>>

Restart(i) ==
  /\ counters[i] # Zero
  /\ counters' = [counters EXCEPT ![i] = Zero]
  /\ UNCHANGED <<server, conns, cancelled, pc, at, elapsed, opEnd, wait,
                 client, prev, work, report>>

Added(c, l) == [ops |-> c.ops + 1, latency |-> c.latency + l]

\* A client of the server runs an operation.
Operate(i) ==
  \E l \in 0..MaxOps :
    /\ i \in Busy /\ server[i] = "up"
    /\ Added(counters[i], l) \in Latencies
    /\ Added(work[i], l) \in Latencies
    /\ counters' = [counters EXCEPT ![i] = Added(@, l)]
    /\ work' = [work EXCEPT ![i] = Added(@, l)]
    /\ UNCHANGED <<server, conns, cancelled, pc, at, elapsed, opEnd, wait,
                   client, prev, report>>

Shutdown ==
  /\ ~cancelled
  /\ cancelled' = TRUE
  /\ UNCHANGED <<server, counters, conns, pc, at, elapsed, opEnd, wait,
                 client, prev, work, report>>

-----------------------------------------------------------------------------
(* Collect.                                                                *)

Remaining(w, gap) == IF w > gap THEN w - gap ELSE 0

\* The agent calls Collect; now := time.Now().
Begin ==
  /\ pc = "idle" /\ ~cancelled
  /\ \E gap \in Gaps : wait' = [i \in Instances |-> Remaining(wait[i], gap)]
  /\ pc' = "loop" /\ at' = 1 /\ elapsed' = 0
  /\ UNCHANGED <<server, counters, conns, cancelled, opEnd, client, prev,
                 work, report>>

CtxDone == cancelled \/ elapsed >= Deadline

\* now.Before(inst.nextAttempt)
Skip ==
  /\ pc = "loop" /\ at \in Instances
  /\ wait[at] > 0
  /\ at' = at + 1
  /\ UNCHANGED <<server, counters, conns, cancelled, pc, elapsed, opEnd, wait,
                 client, prev, work, report>>

\* The end of the loop, or its early return when the context is done.
Return ==
  /\ pc = "loop"
  /\ at \in Instances => wait[at] = 0 /\ CtxDone
  /\ pc' = "idle" /\ at' = 0 /\ elapsed' = 0 /\ opEnd' = 0
  /\ UNCHANGED <<server, counters, conns, cancelled, wait, client, prev,
                 work, report>>

\* The deadline of context.WithTimeout(ctx, timeout).
OpEnd == Min({elapsed + OpTimeout, Deadline})

\* collectInstance: opCtx, and ensureClient when there is a client.
Attempt ==
  /\ pc = "loop" /\ at \in Instances
  /\ wait[at] = 0 /\ ~CtxDone
  /\ opEnd' = OpEnd
  /\ pc' = IF client[at] THEN "status" ELSE "connect"
  /\ UNCHANGED <<server, counters, conns, cancelled, at, elapsed, wait,
                 client, prev, work, report>>

\* Mutant: a failed instance is tried again in every collection.
NextAttempt_Unset(i) == wait

\* Collect: an error of collectInstance.
NextAttempt(i) == [wait EXCEPT ![i] = RetryEvery]

Failed(i) ==
  /\ wait' = NextAttempt(i)
  /\ pc' = "loop" /\ at' = i + 1

ConnectFail ==
  /\ pc = "connect" /\ at \in Malformed
  /\ Failed(at)
  /\ UNCHANGED <<server, counters, conns, cancelled, elapsed, opEnd, client,
                 prev, work, report>>

\* mongo.Connect makes a client and does not wait for the server.
Connect ==
  /\ pc = "connect" /\ at \notin Malformed
  /\ conns' = [conns EXCEPT ![at] = @ + 1]
  /\ pc' = "ping"
  /\ UNCHANGED <<server, counters, cancelled, at, elapsed, opEnd, wait,
                 client, prev, work, report>>

\* A call under opCtx to instance i answers in time.
Answers(i) ==
  /\ ~cancelled /\ server[i] = "up"
  /\ elapsed < opEnd /\ elapsed + Need[i] <= opEnd

\* When a call that fails returns: at once, or when opCtx is done.
FailsAt(i) ==
  IF cancelled \/ server[i] = "refusing" THEN elapsed ELSE Max({elapsed, opEnd})

PingOK ==
  /\ pc = "ping" /\ Answers(at)
  /\ elapsed' = elapsed + Need[at]
  /\ client' = [client EXCEPT ![at] = TRUE]
  /\ pc' = "status"
  /\ UNCHANGED <<server, counters, conns, cancelled, at, opEnd, wait, prev,
                 work, report>>

\* Mutant: the client is dropped without Disconnect.
Disconnected_Dropped(i) == conns

\* The connections of i after client.Disconnect.
Disconnected(i) == [conns EXCEPT ![i] = @ - 1]

\* Disconnect(ctx) may wait until opCtx is done.
PingFail ==
  /\ pc = "ping" /\ ~Answers(at)
  /\ conns' = Disconnected(at)
  /\ \E t \in FailsAt(at)..Max({FailsAt(at), opEnd}) : elapsed' = t
  /\ Failed(at)
  /\ UNCHANGED <<server, counters, cancelled, opEnd, client, prev, work,
                 report>>

\* Mutant: resetClient has no deadline of its own.
DisconnectTimes_Unbounded == 0..Grace + OpTimeout

\* How long Disconnect may take in resetClient.
DisconnectTimes == 0..Grace

\* serverStatus fails; resetClient with a deadline of its own.
StatusFail ==
  /\ pc = "status" /\ ~Answers(at)
  /\ conns' = Disconnected(at)
  /\ client' = [client EXCEPT ![at] = FALSE]
  /\ \E d \in DisconnectTimes : elapsed' = FailsAt(at) + d
  /\ Failed(at)
  /\ UNCHANGED <<server, counters, cancelled, opEnd, prev, work, report>>

diffCounter(p, c) == IF c >= p THEN c - p ELSE 0

\* emitLatency: nothing unless both differences are positive.
Latency(p, c) ==
  LET ops == diffCounter(p.ops, c.ops)
      latency == diffCounter(p.latency, c.latency)
  IN IF ops > 0 /\ latency > 0 THEN [ops |-> ops, latency |-> latency]
                               ELSE None

\* Mutant: the previous latencies are set by the first status only.
Kept_First(i) == [prev EXCEPT ![i] = IF @ = None THEN counters[i] ELSE @]

\* prevOpLat and hasPrevLat after a status.
Kept(i) == [prev EXCEPT ![i] = counters[i]]

StatusOK ==
  /\ pc = "status" /\ Answers(at)
  /\ elapsed' = elapsed + Need[at]
  /\ report' = [report EXCEPT ![at] =
                  IF prev[at] = None THEN None
                  ELSE LET r == Latency(prev[at], counters[at])
                       IN IF r = None THEN None
                          ELSE [diff |-> r, work |-> work[at]]]
  /\ prev' = Kept(at)
  /\ work' = [work EXCEPT ![at] = Zero]
  /\ pc' = "loop" /\ at' = at + 1
  /\ UNCHANGED <<server, counters, conns, cancelled, opEnd, wait, client>>

\* Close, which the agent calls when no collection runs: resetClient for each.
Close ==
  /\ pc = "idle" /\ cancelled
  /\ conns' = [i \in Instances |->
                 IF client[i] THEN conns[i] - 1 ELSE conns[i]]
  /\ client' = [i \in Instances |-> FALSE]
  /\ pc' = "closed"
  /\ UNCHANGED <<server, counters, cancelled, at, elapsed, opEnd, wait, prev,
                 work, report>>

Collect ==
  \/ Begin \/ Skip \/ Return \/ Attempt
  \/ ConnectFail \/ Connect \/ PingOK \/ PingFail
  \/ StatusOK \/ StatusFail

Next ==
  \/ Collect
  \/ Close
  \/ \E i \in Instances : Turn(i) \/ Restart(i) \/ Operate(i)
  \/ Shutdown

Spec == Init /\ [][Next]_vars

(***************************************************************************)
(* The agent calls Collect on every tick (AgentRunner's KeepsCollecting)   *)
(* and every driver call of a collection is bounded by opCtx.              *)
(***************************************************************************)
FairSpec == Spec /\ WF_vars(Collect)

-----------------------------------------------------------------------------
(* Properties.                                                             *)

\* Type invariant; opCtx never outlives the context of the collection.
TypeOK ==
  /\ server \in [Instances -> {"up", "refusing", "hanging"}]
  /\ counters \in [Instances -> Latencies]
  /\ conns \in [Instances -> Nat]
  /\ cancelled \in BOOLEAN
  /\ pc \in {"idle", "loop", "connect", "ping", "status", "closed"}
  /\ at \in 0..N + 1
  /\ elapsed \in Nat /\ opEnd \in 0..Deadline
  /\ wait \in [Instances -> 0..RetryEvery]
  /\ client \in [Instances -> BOOLEAN]
  /\ prev \in [Instances -> Latencies \cup {None}]
  /\ work \in [Instances -> Latencies]
  /\ report \in [Instances -> [diff : Latencies, work : Latencies] \cup {None}]

(***************************************************************************)
(* Every driver client that is not disconnected is the one in inst.client, *)
(* or the one that ensureClient is pinging: failed pings, failed statuses  *)
(* and retries over a long outage leave no connection pool behind, and     *)
(* none is left after Close (collector.go:229-263).                        *)
(***************************************************************************)
NoLeakedConnection ==
  /\ TypeOK
  /\ \A i \in Instances :
       conns[i] = (IF client[i] THEN 1 ELSE 0)
                  + (IF pc = "ping" /\ at = i THEN 1 ELSE 0)

(***************************************************************************)
(* A collection holds its slot of the agent past its deadline for at most  *)
(* one Disconnect, however many instances hang and fail, since resetClient *)
(* does not use the context of the collection (collector.go:65, 143, 258). *)
(***************************************************************************)
OverrunBounded == elapsed <= Deadline + Grace

(***************************************************************************)
(* Each of the two differences of a report is at most the work that the    *)
(* server did since the previous report, although the server restarts and  *)
(* connections are replaced in between.  Their quotient, which the code    *)
(* emits, has no such bound: after a restart that went unnoticed the       *)
(* differences no longer start at one moment (collector.go:194-227).       *)
(***************************************************************************)
ReportedIsWork ==
  \A i \in Instances : report[i] # None =>
    /\ report[i].diff.ops <= report[i].work.ops
    /\ report[i].diff.latency <= report[i].work.latency

(***************************************************************************)
(* An instance that stays up and answers at once is collected again and    *)
(* again, although those before it hang, fail and recover for ever and use *)
(* up the deadline: what they cost is paid once per retry interval         *)
(* (collector.go:60-72).                                                   *)
(***************************************************************************)
HealthyCollected ==
  \A i \in Instances \ Malformed :
    (Need[i] = 0 /\ <>[](server[i] = "up" /\ ~cancelled))
      => []<><<StatusOK /\ at = i>>_vars

=============================================================================
