------------------------ MODULE MongoCollectorProofs ------------------------
(***************************************************************************)
(* Proofs about the Mongo collector (MongoCollector.tla) for every number  *)
(* of instances, all timeouts and however the servers behave.              *)
(***************************************************************************)
EXTENDS MongoCollector, TLAPS

-----------------------------------------------------------------------------
(* The inductive invariant                                                 *)

\* Inside collectInstance the loop is at an instance, opCtx is not over yet by
\* more than the call in progress, and ensureClient has run or has to.
StageInv ==
  /\ pc \in {"connect", "ping", "status"} => at \in Instances /\ elapsed <= opEnd
  /\ pc \in {"connect", "ping"} => ~client[at]
  /\ pc = "status" => client[at]

\* A server has counted no more than the previous status and what it has done
\* since; after a restart it has counted less.
WorkInv ==
  \A i \in Instances : prev[i] # None =>
    /\ counters[i].ops <= prev[i].ops + work[i].ops
    /\ counters[i].latency <= prev[i].latency + work[i].latency

Inv == NoLeakedConnection /\ StageInv /\ OverrunBounded /\ WorkInv /\ ReportedIsWork

-----------------------------------------------------------------------------
(* Timeouts                                                                *)

LEMMA MinOfTwo ==
  ASSUME NEW a \in Nat, NEW b \in Nat
  PROVE  Min({a, b}) \in Nat /\ Min({a, b}) <= a /\ Min({a, b}) <= b
         /\ (Min({a, b}) = a \/ Min({a, b}) = b)
<1>1. \E x \in {a, b} : \A y \in {a, b} : x =< y
  OBVIOUS
<1>2. Min({a, b}) \in {a, b} /\ \A y \in {a, b} : Min({a, b}) =< y
  BY <1>1 DEF Min
<1>3. QED
  BY <1>2

LEMMA MaxOfTwo ==
  ASSUME NEW a \in Nat, NEW b \in Nat
  PROVE  Max({a, b}) = IF a <= b THEN b ELSE a
<1>1. \E x \in {a, b} : \A y \in {a, b} : x >= y
  OBVIOUS
<1>2. Max({a, b}) \in {a, b} /\ \A y \in {a, b} : Max({a, b}) >= y
  BY <1>1 DEF Max
<1>3. QED
  BY <1>2

\* A call that fails returns before opCtx is over or when it is.
LEMMA FailsInTime ==
  ASSUME TypeOK, elapsed <= opEnd, NEW i \in Instances
  PROVE  /\ FailsAt(i) \in Nat /\ elapsed <= FailsAt(i) /\ FailsAt(i) <= opEnd
         /\ Max({FailsAt(i), opEnd}) = opEnd
<1>1. elapsed \in Nat /\ opEnd \in Nat
  BY MongoAssumption DEF TypeOK
<1>2. Max({elapsed, opEnd}) = opEnd
  BY <1>1, MaxOfTwo
<1>3. FailsAt(i) \in Nat /\ elapsed <= FailsAt(i) /\ FailsAt(i) <= opEnd
  BY <1>1, <1>2 DEF FailsAt
<1>4. QED
  BY <1>1, <1>3, MaxOfTwo

-----------------------------------------------------------------------------
(* Steps of the servers                                                    *)

LEMMA TurnKeeps == ASSUME Inv, NEW i \in Instances, Turn(i) PROVE Inv'
<1>1. server' \in [Instances -> {"up", "refusing", "hanging"}]
  BY DEF Inv, NoLeakedConnection, TypeOK, Turn
<1>2. UNCHANGED <<counters, conns, cancelled, pc, at, elapsed, opEnd, wait,
                  client, prev, work, report>>
  BY DEF Turn
<1>3. QED
  BY <1>1, <1>2 DEF Inv, NoLeakedConnection, TypeOK, StageInv, OverrunBounded,
                    WorkInv, ReportedIsWork

LEMMA RestartKeeps == ASSUME Inv, NEW i \in Instances, Restart(i) PROVE Inv'
<1>1. /\ counters' = [counters EXCEPT ![i] = Zero]
      /\ UNCHANGED <<server, conns, cancelled, pc, at, elapsed, opEnd, wait,
                     client, prev, work, report>>
  BY DEF Restart
<1>2. Zero \in Latencies
  BY MongoAssumption DEF Zero, Latencies
<1>3. counters \in [Instances -> Latencies]
  BY DEF Inv, NoLeakedConnection, TypeOK
<1>4. counters' \in [Instances -> Latencies]
  BY <1>1, <1>2, <1>3
<1>5. WorkInv'
  <2> SUFFICES ASSUME NEW j \in Instances, prev[j] # None
               PROVE  /\ counters'[j].ops <= prev[j].ops + work[j].ops
                      /\ counters'[j].latency <= prev[j].latency + work[j].latency
    BY <1>1 DEF WorkInv
  <2>1. prev[j] \in Latencies /\ work[j] \in Latencies
    BY DEF Inv, NoLeakedConnection, TypeOK
  <2>2. /\ prev[j].ops \in Nat /\ prev[j].latency \in Nat
        /\ work[j].ops \in Nat /\ work[j].latency \in Nat
    BY <2>1, MongoAssumption DEF Latencies
  <2>3. CASE j = i
    <3>1. counters'[j].ops = 0 /\ counters'[j].latency = 0
      BY <1>1, <1>3, <2>3 DEF Zero
    <3>2. QED
      BY <2>2, <3>1
  <2>4. CASE j # i
    BY <1>1, <1>3, <2>4 DEF Inv, WorkInv
  <2>5. QED
    BY <2>3, <2>4
<1>6. QED
  BY <1>1, <1>4, <1>5 DEF Inv, NoLeakedConnection, TypeOK, StageInv,
                          OverrunBounded, ReportedIsWork

LEMMA OperateKeeps == ASSUME Inv, NEW i \in Instances, Operate(i) PROVE Inv'
<1>1. PICK l \in 0..MaxOps :
        /\ Added(counters[i], l) \in Latencies /\ Added(work[i], l) \in Latencies
        /\ counters' = [counters EXCEPT ![i] = Added(counters[i], l)]
        /\ work' = [work EXCEPT ![i] = Added(work[i], l)]
        /\ UNCHANGED <<server, conns, cancelled, pc, at, elapsed, opEnd, wait,
                       client, prev, report>>
  BY DEF Operate
<1>2. counters \in [Instances -> Latencies] /\ work \in [Instances -> Latencies]
  BY DEF Inv, NoLeakedConnection, TypeOK
<1>3. counters' \in [Instances -> Latencies] /\ work' \in [Instances -> Latencies]
  BY <1>1, <1>2
<1>4. WorkInv'
  <2> SUFFICES ASSUME NEW j \in Instances, prev[j] # None
               PROVE  /\ counters'[j].ops <= prev[j].ops + work'[j].ops
                      /\ counters'[j].latency <= prev[j].latency + work'[j].latency
    BY <1>1 DEF WorkInv
  <2>1. prev[j] \in Latencies /\ work[j] \in Latencies /\ counters[j] \in Latencies
    BY DEF Inv, NoLeakedConnection, TypeOK
  <2>2. /\ prev[j].ops \in Nat /\ prev[j].latency \in Nat
        /\ work[j].ops \in Nat /\ work[j].latency \in Nat
        /\ counters[j].ops \in Nat /\ counters[j].latency \in Nat /\ l \in Nat
    BY <2>1, MongoAssumption DEF Latencies
  <2>3. /\ counters[j].ops <= prev[j].ops + work[j].ops
        /\ counters[j].latency <= prev[j].latency + work[j].latency
    BY DEF Inv, WorkInv
  <2>4. CASE j = i
    <3>1. /\ counters'[j].ops = counters[j].ops + 1
          /\ counters'[j].latency = counters[j].latency + l
          /\ work'[j].ops = work[j].ops + 1
          /\ work'[j].latency = work[j].latency + l
      BY <1>1, <1>2, <2>4 DEF Added
    <3>2. QED
      BY <2>2, <2>3, <3>1
  <2>5. CASE j # i
    BY <1>1, <1>2, <2>3, <2>5
  <2>6. QED
    BY <2>4, <2>5
<1>5. QED
  BY <1>1, <1>3, <1>4 DEF Inv, NoLeakedConnection, TypeOK, StageInv,
                          OverrunBounded, ReportedIsWork

-----------------------------------------------------------------------------
(* Steps of a collection                                                   *)

\* What a step keeps that neither moves counters nor takes a status.
LEMMA WorkFrame ==
  ASSUME WorkInv, ReportedIsWork, UNCHANGED <<counters, prev, work, report>>
  PROVE  WorkInv' /\ ReportedIsWork'
BY DEF WorkInv, ReportedIsWork

\* The loop goes on: nothing is being called.
LEMMA LoopStage == ASSUME pc' \in {"idle", "loop", "closed"} PROVE StageInv'
BY DEF StageInv

\* A step that neither connects nor disconnects, outside of a ping.
LEMMA ConnsFrame ==
  ASSUME NoLeakedConnection, TypeOK', UNCHANGED <<conns, client>>,
         pc # "ping", pc' # "ping"
  PROVE  NoLeakedConnection'
BY DEF NoLeakedConnection

LEMMA NextAttemptType ==
  ASSUME TypeOK, NEW i \in Instances
  PROVE  /\ NextAttempt(i) \in [Instances -> 0..RetryEvery]
         /\ i + 1 \in 0..N + 1
BY MongoAssumption DEF TypeOK, NextAttempt, Instances

LEMMA BeginKeeps == ASSUME Inv, Begin PROVE Inv'
<1>1. PICK gap \in Gaps : wait' = [i \in Instances |-> Remaining(wait[i], gap)]
  BY DEF Begin
<1>2. wait \in [Instances -> 0..RetryEvery] /\ gap \in Nat /\ RetryEvery \in Nat
  BY <1>1, MongoAssumption DEF Inv, NoLeakedConnection, TypeOK
<1>3. \A i \in Instances : Remaining(wait[i], gap) \in 0..RetryEvery
  BY <1>2 DEF Remaining
<1>4. wait' \in [Instances -> 0..RetryEvery]
  BY <1>1, <1>3
<1>5. 1 \in 0..N + 1 /\ 0 <= Deadline + Grace
  BY MongoAssumption
<1>6. TypeOK'
  BY <1>4, <1>5 DEF Inv, NoLeakedConnection, TypeOK, Begin
<1>7. NoLeakedConnection'
  BY <1>6, ConnsFrame DEF Inv, Begin
<1>8. QED
  BY <1>5, <1>7, WorkFrame, LoopStage DEF Inv, Begin, OverrunBounded

LEMMA SkipKeeps == ASSUME Inv, Skip PROVE Inv'
<1>1. at + 1 \in 0..N + 1
  BY MongoAssumption DEF Skip, Instances
<1>2. TypeOK'
  BY <1>1 DEF Inv, NoLeakedConnection, TypeOK, Skip
<1>3. NoLeakedConnection'
  BY <1>2, ConnsFrame DEF Inv, Skip
<1>4. QED
  BY <1>3, WorkFrame, LoopStage DEF Inv, Skip, OverrunBounded

LEMMA ReturnKeeps == ASSUME Inv, Return PROVE Inv'
<1>1. 0 \in 0..N + 1 /\ 0 \in 0..Deadline /\ 0 <= Deadline + Grace
  BY MongoAssumption
<1>2. TypeOK'
  BY <1>1 DEF Inv, NoLeakedConnection, TypeOK, Return
<1>3. NoLeakedConnection'
  BY <1>2, ConnsFrame DEF Inv, Return
<1>4. QED
  BY <1>1, <1>3, WorkFrame, LoopStage DEF Inv, Return, OverrunBounded

LEMMA AttemptKeeps == ASSUME Inv, Attempt PROVE Inv'
<1>1. elapsed \in Nat /\ Deadline \in Nat /\ OpTimeout \in Nat
      /\ elapsed < Deadline
  BY MongoAssumption DEF Inv, NoLeakedConnection, TypeOK, Attempt, CtxDone
<1>2. OpEnd \in 0..Deadline /\ elapsed <= OpEnd
  <2>1. elapsed + OpTimeout \in Nat
    BY <1>1
  <2>2. QED
    BY <1>1, <2>1, MinOfTwo DEF OpEnd
<1>3. TypeOK'
  BY <1>2 DEF Inv, NoLeakedConnection, TypeOK, Attempt
<1>4. NoLeakedConnection'
  BY <1>3, ConnsFrame DEF Inv, Attempt
<1>5. StageInv'
  BY <1>2 DEF StageInv, Attempt
<1>6. QED
  BY <1>4, <1>5, WorkFrame DEF Inv, Attempt, OverrunBounded

LEMMA ConnectFailKeeps == ASSUME Inv, ConnectFail PROVE Inv'
<1>1. at \in Instances
  BY DEF Inv, StageInv, ConnectFail
<1>2. TypeOK'
  BY <1>1, NextAttemptType DEF Inv, NoLeakedConnection, TypeOK, ConnectFail, Failed
<1>3. NoLeakedConnection'
  BY <1>2, ConnsFrame DEF Inv, ConnectFail, Failed
<1>4. QED
  BY <1>3, WorkFrame, LoopStage DEF Inv, ConnectFail, Failed, OverrunBounded

LEMMA ConnectKeeps == ASSUME Inv, Connect PROVE Inv'
<1>1. at \in Instances /\ conns \in [Instances -> Nat]
  BY DEF Inv, StageInv, NoLeakedConnection, TypeOK, Connect
<1>2. conns' = [conns EXCEPT ![at] = conns[at] + 1]
  BY DEF Connect
<1>3. TypeOK'
  BY <1>1, <1>2 DEF Inv, NoLeakedConnection, TypeOK, Connect
<1>4. NoLeakedConnection'
  <2> SUFFICES ASSUME NEW i \in Instances
               PROVE  conns'[i] = (IF client[i] THEN 1 ELSE 0)
                                  + (IF at = i THEN 1 ELSE 0)
    BY <1>3 DEF NoLeakedConnection, Connect
  <2>1. conns[i] = IF client[i] THEN 1 ELSE 0
    BY DEF Inv, NoLeakedConnection, Connect
  <2>2. QED
    BY <1>1, <1>2, <2>1
<1>5. StageInv'
  BY DEF Inv, StageInv, Connect
<1>6. QED
  BY <1>4, <1>5, WorkFrame DEF Inv, Connect, OverrunBounded

LEMMA PingOKKeeps == ASSUME Inv, PingOK PROVE Inv'
<1>1. /\ at \in Instances /\ ~client[at] /\ client \in [Instances -> BOOLEAN]
      /\ elapsed \in Nat /\ opEnd \in 0..Deadline
  BY DEF Inv, StageInv, NoLeakedConnection, TypeOK, PingOK
<1>2. elapsed + Need[at] \in Nat /\ elapsed + Need[at] <= opEnd
  BY <1>1, MongoAssumption DEF PingOK, Answers
<1>3. TypeOK'
  BY <1>1, <1>2 DEF Inv, NoLeakedConnection, TypeOK, PingOK
<1>4. NoLeakedConnection'
  <2> SUFFICES ASSUME NEW i \in Instances
               PROVE  conns[i] = (IF client'[i] THEN 1 ELSE 0)
    BY <1>3 DEF NoLeakedConnection, PingOK
  <2>1. conns[i] = (IF client[i] THEN 1 ELSE 0) + (IF at = i THEN 1 ELSE 0)
    BY DEF Inv, NoLeakedConnection, PingOK
  <2>2. client'[i] = IF at = i THEN TRUE ELSE client[i]
    BY <1>1 DEF PingOK
  <2>3. QED
    BY <1>1, <2>1, <2>2
<1>5. StageInv'
  BY <1>1, <1>2 DEF StageInv, PingOK
<1>6. OverrunBounded'
  <2>1. elapsed + Need[at] <= Deadline + Grace
    BY <1>1, <1>2, MongoAssumption
  <2>2. QED
    BY <2>1 DEF PingOK, OverrunBounded
<1>7. QED
  BY <1>4, <1>5, <1>6, WorkFrame DEF Inv, PingOK

LEMMA PingFailKeeps == ASSUME Inv, PingFail PROVE Inv'
<1>1. /\ at \in Instances /\ elapsed <= opEnd /\ TypeOK
      /\ opEnd \in 0..Deadline /\ conns \in [Instances -> Nat]
  BY DEF Inv, StageInv, NoLeakedConnection, TypeOK, PingFail
<1>2. elapsed' \in Nat /\ elapsed' <= opEnd
  <2>1. PICK t \in FailsAt(at)..Max({FailsAt(at), opEnd}) : elapsed' = t
    BY DEF PingFail
  <2>2. FailsAt(at) \in Nat /\ Max({FailsAt(at), opEnd}) = opEnd
    BY <1>1, FailsInTime
  <2>3. QED
    BY <1>1, <2>1, <2>2, MongoAssumption
<1>3. \A i \in Instances :
        conns[i] = (IF client[i] THEN 1 ELSE 0) + (IF at = i THEN 1 ELSE 0)
  BY DEF Inv, NoLeakedConnection, PingFail
<1>4. conns' = [conns EXCEPT ![at] = conns[at] - 1]
  BY DEF PingFail, Disconnected
<1>5. \A i \in Instances : conns'[i] = IF client[i] THEN 1 ELSE 0
  BY <1>1, <1>3, <1>4
<1>6. conns' \in [Instances -> Nat]
  BY <1>1, <1>4, <1>5
<1>7. TypeOK'
  BY <1>1, <1>2, <1>6, NextAttemptType DEF TypeOK, PingFail, Failed
<1>8. NoLeakedConnection'
  BY <1>5, <1>7 DEF NoLeakedConnection, PingFail, Failed
<1>9. OverrunBounded'
  BY <1>1, <1>2, MongoAssumption DEF OverrunBounded
<1>10. QED
  BY <1>8, <1>9, WorkFrame, LoopStage DEF Inv, PingFail, Failed

LEMMA StatusFailKeeps == ASSUME Inv, StatusFail PROVE Inv'
<1>1. /\ at \in Instances /\ elapsed <= opEnd /\ TypeOK /\ client[at]
      /\ opEnd \in 0..Deadline /\ conns \in [Instances -> Nat]
      /\ client \in [Instances -> BOOLEAN]
  BY DEF Inv, StageInv, NoLeakedConnection, TypeOK, StatusFail
<1>2. elapsed' \in Nat /\ elapsed' <= Deadline + Grace
  <2>1. PICK d \in 0..Grace : elapsed' = FailsAt(at) + d
    BY DEF StatusFail, DisconnectTimes
  <2>2. FailsAt(at) \in Nat /\ FailsAt(at) <= opEnd
    BY <1>1, FailsInTime
  <2>3. QED
    BY <1>1, <2>1, <2>2, MongoAssumption
<1>3. \A i \in Instances : conns[i] = IF client[i] THEN 1 ELSE 0
  BY DEF Inv, NoLeakedConnection, StatusFail
<1>4. /\ conns' = [conns EXCEPT ![at] = conns[at] - 1]
      /\ client' = [client EXCEPT ![at] = FALSE]
  BY DEF StatusFail, Disconnected
<1>5. \A i \in Instances : conns'[i] = IF client'[i] THEN 1 ELSE 0
  BY <1>1, <1>3, <1>4
<1>6. conns' \in [Instances -> Nat] /\ client' \in [Instances -> BOOLEAN]
  BY <1>1, <1>4, <1>5
<1>7. TypeOK'
  BY <1>1, <1>2, <1>6, NextAttemptType DEF TypeOK, StatusFail, Failed
<1>8. NoLeakedConnection'
  BY <1>5, <1>7 DEF NoLeakedConnection, StatusFail, Failed
<1>9. OverrunBounded'
  BY <1>2 DEF OverrunBounded
<1>10. QED
  BY <1>8, <1>9, WorkFrame, LoopStage DEF Inv, StatusFail, Failed

\* The differences emitted lie within the counters, and within the work done
\* since the previous status: a counter that fell reports nothing.
LEMMA LatencyBounded ==
  ASSUME NEW p \in Latencies, NEW c \in Latencies, NEW w \in Latencies,
         c.ops <= p.ops + w.ops, c.latency <= p.latency + w.latency,
         Latency(p, c) # None
  PROVE  /\ Latency(p, c) \in Latencies
         /\ Latency(p, c).ops <= w.ops /\ Latency(p, c).latency <= w.latency
<1>1. /\ p.ops \in 0..MaxOps /\ p.latency \in 0..MaxOps
      /\ c.ops \in 0..MaxOps /\ c.latency \in 0..MaxOps
      /\ w.ops \in 0..MaxOps /\ w.latency \in 0..MaxOps
      /\ MaxOps \in Nat
  BY MongoAssumption DEF Latencies
<1>2. /\ diffCounter(p.ops, c.ops) \in 0..MaxOps
      /\ diffCounter(p.latency, c.latency) \in 0..MaxOps
      /\ diffCounter(p.ops, c.ops) <= w.ops
      /\ diffCounter(p.latency, c.latency) <= w.latency
  BY <1>1 DEF diffCounter
<1>3. Latency(p, c) = [ops |-> diffCounter(p.ops, c.ops),
                       latency |-> diffCounter(p.latency, c.latency)]
  BY DEF Latency
<1>4. QED
  BY <1>2, <1>3 DEF Latencies

LEMMA StatusOKKeeps == ASSUME Inv, StatusOK PROVE Inv'
<1>1. /\ at \in Instances /\ elapsed \in Nat /\ opEnd \in 0..Deadline /\ TypeOK
      /\ counters \in [Instances -> Latencies] /\ work \in [Instances -> Latencies]
      /\ prev \in [Instances -> Latencies \cup {None}]
      /\ report \in [Instances -> [diff : Latencies, work : Latencies] \cup {None}]
      /\ pc = "status"
  BY DEF Inv, StageInv, NoLeakedConnection, TypeOK, StatusOK
<1> DEFINE r == Latency(prev[at], counters[at])
           new == IF prev[at] = None THEN None
                  ELSE IF r = None THEN None ELSE [diff |-> r, work |-> work[at]]
<1>2. /\ report' = [report EXCEPT ![at] = new]
      /\ prev' = [prev EXCEPT ![at] = counters[at]]
      /\ work' = [work EXCEPT ![at] = Zero]
      /\ counters' = counters
  BY DEF StatusOK, Kept
<1>3. new # None =>
        /\ new = [diff |-> r, work |-> work[at]]
        /\ r \in Latencies /\ r.ops <= work[at].ops /\ r.latency <= work[at].latency
  <2> SUFFICES ASSUME new # None
               PROVE  /\ r \in Latencies
                      /\ r.ops <= work[at].ops /\ r.latency <= work[at].latency
    OBVIOUS
  <2>1. prev[at] # None /\ r # None
    OBVIOUS
  <2>2. prev[at] \in Latencies /\ counters[at] \in Latencies /\ work[at] \in Latencies
    BY <1>1, <2>1
  <2>3. /\ counters[at].ops <= prev[at].ops + work[at].ops
        /\ counters[at].latency <= prev[at].latency + work[at].latency
    BY <1>1, <2>1 DEF Inv, WorkInv
  <2>4. QED
    BY <2>1, <2>2, <2>3, LatencyBounded
<1> HIDE DEF r, new
<1>4. elapsed + Need[at] \in Nat /\ elapsed + Need[at] <= opEnd
  BY <1>1, MongoAssumption DEF StatusOK, Answers
<1>5. Zero \in Latencies
  BY MongoAssumption DEF Zero, Latencies
<1>6. TypeOK'
  <2>1. new \in [diff : Latencies, work : Latencies] \cup {None}
    BY <1>1, <1>3
  <2>2. /\ report' \in [Instances -> [diff : Latencies, work : Latencies] \cup {None}]
        /\ prev' \in [Instances -> Latencies \cup {None}]
        /\ work' \in [Instances -> Latencies]
    BY <1>1, <1>2, <1>5, <2>1
  <2>3. at + 1 \in 0..N + 1
    BY <1>1, NextAttemptType
  <2>4. QED
    BY <1>1, <1>4, <2>2, <2>3 DEF TypeOK, StatusOK
<1>7. NoLeakedConnection'
  BY <1>1, <1>6, ConnsFrame DEF Inv, StatusOK
<1>8. OverrunBounded'
  <2>1. elapsed + Need[at] <= Deadline + Grace
    BY <1>1, <1>4, MongoAssumption
  <2>2. QED
    BY <2>1 DEF StatusOK, OverrunBounded
<1>9. ReportedIsWork'
  <2> SUFFICES ASSUME NEW i \in Instances, report'[i] # None
               PROVE  /\ report'[i].diff.ops <= report'[i].work.ops
                      /\ report'[i].diff.latency <= report'[i].work.latency
    BY DEF ReportedIsWork
  <2>1. CASE i = at
    <3>1. report'[i] = new
      BY <1>1, <1>2, <2>1
    <3>2. QED
      BY <1>3, <3>1
  <2>2. CASE i # at
    BY <1>1, <1>2, <2>2 DEF Inv, ReportedIsWork
  <2>3. QED
    BY <2>1, <2>2
<1>10. WorkInv'
  <2> SUFFICES ASSUME NEW i \in Instances, prev'[i] # None
               PROVE  /\ counters[i].ops <= prev'[i].ops + work'[i].ops
                      /\ counters[i].latency <= prev'[i].latency + work'[i].latency
    BY <1>2 DEF WorkInv
  <2>1. CASE i = at
    <3>1. prev'[i] = counters[i] /\ work'[i] = Zero
      BY <1>1, <1>2, <2>1
    <3>2. counters[i].ops \in Nat /\ counters[i].latency \in Nat
      BY <1>1, MongoAssumption DEF Latencies
    <3>3. QED
      BY <3>1, <3>2 DEF Zero
  <2>2. CASE i # at
    BY <1>1, <1>2, <2>2 DEF Inv, WorkInv
  <2>3. QED
    BY <2>1, <2>2
<1>11. QED
  BY <1>7, <1>8, <1>9, <1>10, LoopStage DEF Inv, StatusOK

LEMMA CloseKeeps == ASSUME Inv, Close PROVE Inv'
<1>1. \A i \in Instances : conns[i] = IF client[i] THEN 1 ELSE 0
  BY DEF Inv, NoLeakedConnection, Close
<1>2. /\ conns' = [i \in Instances |-> IF client[i] THEN conns[i] - 1 ELSE conns[i]]
      /\ client' = [i \in Instances |-> FALSE]
  BY DEF Close
<1>3. \A i \in Instances : conns'[i] = 0 /\ client'[i] = FALSE
  BY <1>1, <1>2
<1>4. conns' \in [Instances -> Nat] /\ client' \in [Instances -> BOOLEAN]
  BY <1>2, <1>3
<1>5. TypeOK'
  BY <1>4 DEF Inv, NoLeakedConnection, TypeOK, Close
<1>6. NoLeakedConnection'
  BY <1>3, <1>5 DEF NoLeakedConnection, Close
<1>7. QED
  BY <1>6, WorkFrame, LoopStage DEF Inv, Close, OverrunBounded

-----------------------------------------------------------------------------
(* Theorems                                                                *)

LEMMA MongoInv == Spec => []Inv
<1>1. Init => Inv
  <2> SUFFICES ASSUME Init PROVE Inv
    OBVIOUS
  <2>1. Zero \in Latencies
    BY MongoAssumption DEF Zero, Latencies
  <2>2. TypeOK
    <3>1. 0 \in 0..N + 1 /\ 0 \in 0..Deadline /\ 0 \in 0..RetryEvery
      BY MongoAssumption
    <3>2. wait \in [Instances -> 0..RetryEvery] /\ conns \in [Instances -> Nat]
      BY <3>1 DEF Init
    <3>3. QED
      BY <2>1, <3>1, <3>2 DEF Init, TypeOK
  <2>3. NoLeakedConnection
    BY <2>2 DEF Init, NoLeakedConnection
  <2>4. StageInv /\ WorkInv /\ ReportedIsWork
    BY DEF Init, StageInv, WorkInv, ReportedIsWork
  <2>5. OverrunBounded
    BY MongoAssumption DEF Init, OverrunBounded
  <2>6. QED
    BY <2>3, <2>4, <2>5 DEF Inv
<1>2. Inv /\ [Next]_vars => Inv'
  <2> SUFFICES ASSUME Inv, [Next]_vars PROVE Inv'
    OBVIOUS
  <2>1. CASE Collect
    BY <2>1, BeginKeeps, SkipKeeps, ReturnKeeps, AttemptKeeps, ConnectFailKeeps,
       ConnectKeeps, PingOKKeeps, PingFailKeeps, StatusOKKeeps, StatusFailKeeps
       DEF Collect
  <2>2. CASE Close
    BY <2>2, CloseKeeps
  <2>3. CASE \E i \in Instances : Turn(i) \/ Restart(i) \/ Operate(i)
    BY <2>3, TurnKeeps, RestartKeeps, OperateKeeps
  <2>4. CASE Shutdown
    BY <2>4 DEF Shutdown, Inv, NoLeakedConnection, TypeOK, StageInv,
                OverrunBounded, WorkInv, ReportedIsWork
  <2>5. CASE UNCHANGED vars
    BY <2>5 DEF vars, Inv, NoLeakedConnection, TypeOK, StageInv,
                OverrunBounded, WorkInv, ReportedIsWork
  <2>6. QED
    BY <2>1, <2>2, <2>3, <2>4, <2>5 DEF Next
<1>3. QED
  BY <1>1, <1>2, PTL DEF Spec

\* No connection pool is left behind by failed pings, failed statuses, retries
\* or Close, for any number of instances (collector.go:229-263).
THEOREM MongoNoLeakedConnection == Spec => []NoLeakedConnection
<1>1. Inv => NoLeakedConnection
  BY DEF Inv
<1>2. QED
  BY <1>1, MongoInv, PTL

\* However many instances hang and whatever the timeouts are, a collection keeps
\* its slot past its deadline for one Disconnect at most (collector.go:65-72,
\* 143, 258).
THEOREM MongoOverrunBounded == Spec => []OverrunBounded
<1>1. Inv => OverrunBounded
  BY DEF Inv
<1>2. QED
  BY <1>1, MongoInv, PTL

\* Neither difference of a report exceeds the work it covers, although servers
\* restart unnoticed and connections are replaced (collector.go:194-227).
THEOREM MongoReportedIsWork == Spec => []ReportedIsWork
<1>1. Inv => ReportedIsWork
  BY DEF Inv
<1>2. QED
  BY <1>1, MongoInv, PTL

=============================================================================
