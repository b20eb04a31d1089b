---------------------------- MODULE ClientProofs ----------------------------
(***************************************************************************)
(* Proofs about the client (Client.tla) for every number of goroutines and *)
(* calls, every size of the queues and of a batch, every retry budget and  *)
(* every table of delays: its queues and Close keep their bounds, each     *)
(* event is in exactly one place, a batch id stands for one payload, and   *)
(* the client implements Delivery.                                         *)
(***************************************************************************)
EXTENDS Client, SequenceTheorems, TLAPS

-----------------------------------------------------------------------------
(* The sequence operators of the model                                     *)

\* The ids of a sequence are among those it is a sequence of (the batch that
\* flush hands to buildPayload).
LEMMA ElementsType ==
  ASSUME NEW S, NEW s \in Seq(S)
  PROVE  Elements(s) \subseteq S
  BY DEF Elements

\* Taking an item out of the retry queue leaves a queue that is one shorter and
\* whose items were in the old one, at their old place or one behind it
\* (client.go:576-577).
LEMMA WithoutType ==
  ASSUME NEW S, NEW s \in Seq(S), NEW j \in 1..Len(s)
  PROVE  /\ Without(s, j) \in Seq(S)
         /\ Len(Without(s, j)) = Len(s) - 1
         /\ \A k \in 1..(Len(s) - 1) :
              Without(s, j)[k] = IF k < j THEN s[k] ELSE s[k + 1]
<1> DEFINE n == Len(s) - 1
<1>1. n \in Nat
  BY LenProperties
<1>2. \A k \in 1..n : (IF k < j THEN s[k] ELSE s[k + 1]) \in S
  OBVIOUS
<1>3. Without(s, j) = [k \in 1..n |-> IF k < j THEN s[k] ELSE s[k + 1]]
  BY DEF Without
<1>4. Without(s, j) \in [1..n -> S]
  BY <1>2, <1>3
<1>5. QED
  BY <1>1, <1>3, <1>4

\* The same holds when time passes, or when an attempt is counted.
LEMMA SeqOfFunction ==
  ASSUME NEW S, NEW n \in Nat, NEW f \in [1..n -> S]
  PROVE  f \in Seq(S) /\ Len(f) = n
  OBVIOUS

-----------------------------------------------------------------------------
(* The inductive invariant                                                 *)

Continuations == {"select", "drain", "tickPass", "closePass", "pass"}

\* sendPayload is working on the payload cur.
Active == pc \in {"gate", "transport"}

\* A batch lives in one place: at most once in the retry queue, and not there
\* while sendPayload works on it.
OneCopy ==
  /\ Len(sends) = batchSeq
  /\ \A i \in 1..Len(retryQueue) : retryQueue[i].batch \in 1..batchSeq
  /\ \A i, j \in 1..Len(retryQueue) :
       retryQueue[i].batch = retryQueue[j].batch => i = j
  /\ Active => /\ cur.batch \in 1..batchSeq
               /\ \A i \in 1..Len(retryQueue) :
                    retryQueue[i].batch # cur.batch

\* The attempts a retry carries are the sends of its batch, deferrals or not.
Counted ==
  /\ \A b \in 1..Len(sends) : sends[b] <= RetryMaxAttempts
  /\ \A i \in 1..Len(retryQueue) :
       /\ retryQueue[i].attempts = sends[retryQueue[i].batch]
       /\ retryQueue[i].attempts < RetryMaxAttempts
  /\ Active => cur.attempt \in 1..RetryMaxAttempts
  /\ pc = "gate" => sends[cur.batch] = cur.attempt - 1
  /\ pc = "transport" => sends[cur.batch] = cur.attempt

\* A resend has left a free place in the retry queue.
Room ==
  /\ Len(retryQueue) <= RetryQueueSize
  /\ Active /\ cur.fromRetry => Len(retryQueue) < RetryQueueSize

RetryInv == OneCopy /\ Counted /\ Room

\* Every event has an id of its own, and one that a goroutine still holds has
\* not been in the queue.
FreshIds ==
  /\ early \subseteq 1..calls
  /\ \A c \in Callers :
       held[c] # NoEvent => held[c].id \in 1..calls /\ held[c].id \notin early
  /\ \A c, d \in Callers :
       held[c] # NoEvent /\ held[d] # NoEvent /\ held[c].id = held[d].id => c = d

\* The worker has found the queue empty after it was cancelled ...
AfterDrain ==
  \/ pc \in {"closePass", "exited"}
  \/ pc = "pass" /\ pass.ignoreBackoff
  \/ Active /\ ret = "closePass"
  \/ Active /\ ret = "pass" /\ pass.ignoreBackoff

\* ... and what it collects from then on is not from before the cancellation.
DrainInv ==
  /\ pc = "drain" \/ (Active /\ ret = "drain") => cancelled
  /\ AfterDrain => /\ cancelled
                   /\ batch = <<>>
                   /\ \A i \in 1..Len(queue) : queue[i].id \notin early

CloseInv == FreshIds /\ DrainInv

-----------------------------------------------------------------------------
(* Type correctness                                                        *)

\* What flush does to the variables it may change (client.go:408-434).
LEMMA FlushType ==
  ASSUME TypeOK, NEW e \in Seq(Ids), NEW n \in Continuations, Flush(e, n)
  PROVE  /\ pc' \in WorkerPC
         /\ ret' \in Continuations
         /\ batch' \in Seq(Ids)
         /\ cur' \in Sending
         /\ batchSeq' \in Nat
         /\ lost' \subseteq Ids
         /\ sends' \in Seq(Nat)
<1>1. Elements(e) \subseteq Ids
  BY ElementsType
<1>2. /\ sends \in Seq(Nat) /\ batchSeq \in Nat
      /\ Append(sends, 0) \in Seq(Nat)
  BY AppendProperties DEF TypeOK
<1>3. /\ pc' \in {n, "gate"}
      /\ ret' \in {n, ret}
      /\ batch' = <<>>
      /\ batchSeq' \in {batchSeq, batchSeq + 1}
      /\ lost' \in {lost, lost \cup Elements(e)}
      /\ sends' \in {sends, Append(sends, 0)}
      /\ cur' \in {cur, [batch |-> batchSeq + 1, events |-> Elements(e),
                         attempt |-> 1, fromRetry |-> FALSE]}
  BY DEF Flush
<1>4. /\ lost \subseteq Ids /\ ret \in Continuations
      /\ cur \in Sending
  BY DEF TypeOK, Continuations
<1>5. batch' \in Seq(Ids)
  BY <1>3, EmptySeq
<1>6. [batch |-> batchSeq + 1, events |-> Elements(e), attempt |-> 1,
       fromRetry |-> FALSE]
        \in Sending
  BY <1>1, <1>2 DEF Sending
<1>7. /\ pc' \in WorkerPC
      /\ ret' \in Continuations
  BY <1>3, <1>4 DEF Continuations, WorkerPC
<1>8. /\ lost' \subseteq Ids
      /\ batchSeq' \in Nat
      /\ sends' \in Seq(Nat)
  BY <1>1, <1>2, <1>3, <1>4
<1>9. QED
  BY <1>3, <1>4, <1>5, <1>6, <1>7, <1>8

\* enqueueRetryAt keeps the shape of the retry queue (client.go:512-556).
LEMMA EnqueueRetryType ==
  ASSUME TypeOK, NEW a \in Nat, NEW t \in Nat, enqueueRetryAt(a, t)
  PROVE  retryQueue' \in Seq(RetryBatch) /\ lost' \subseteq Ids
<1> DEFINE r == [batch |-> cur.batch, events |-> cur.events,
                 attempts |-> a, nextAttempt |-> t]
<1>1. cur \in Sending /\ retryQueue \in Seq(RetryBatch) /\ lost \subseteq Ids
  BY DEF TypeOK
<1>2. r \in RetryBatch
  BY <1>1 DEF Sending, RetryBatch
<1>3. Append(retryQueue, r) \in Seq(RetryBatch)
  BY <1>1, <1>2, AppendProperties
<1>4. cur.events \subseteq Ids
  BY <1>1 DEF Sending
<1>5. \/ retryQueue' = retryQueue /\ lost' = lost \cup cur.events
      \/ retryQueue' = Append(retryQueue, r) /\ lost' = lost
  BY DEF enqueueRetryAt
<1>6. QED
  BY <1>1, <1>3, <1>4, <1>5

LEMMA TypeInit == Init => TypeOK
<1> SUFFICES ASSUME Init PROVE TypeOK
  OBVIOUS
<1>1. /\ queue = <<>> /\ batch = <<>> /\ retryQueue = <<>> /\ sends = <<>>
  BY DEF Init
<1>2. /\ queue \in Seq(Event) /\ Len(queue) = 0
      /\ batch \in Seq(Ids) /\ retryQueue \in Seq(RetryBatch)
      /\ sends \in Seq(Nat)
  BY <1>1, EmptySeq
<1>3. Len(queue) <= QueueSize /\ calls \in 0..MaxCalls
      /\ transientBackoffAttempt \in 0..BackoffCap
  BY <1>2, ClientAssumption DEF Init
<1>4. cur \in Sending /\ pass \in Pass
  BY DEF Init, NoPayload, Sending, NoPass, Pass
<1>5. QED
  BY <1>2, <1>3, <1>4 DEF Init, TypeOK, WorkerPC

LEMMA TypeStep == TypeOK /\ RetryInv /\ [Next]_vars => TypeOK'
<1> SUFFICES ASSUME TypeOK, RetryInv, [Next]_vars PROVE TypeOK'
  OBVIOUS
<1> USE DEF shared, goroutines, worker, backoff, history
<1>a. cur \in Sending /\ cur.events \subseteq Ids /\ cur.attempt \in Nat
  BY DEF TypeOK, Sending
<1>b. NoPayload \in Sending
  BY DEF NoPayload, Sending
<1>c. ret \in WorkerPC
  BY DEF TypeOK, WorkerPC
<1>1. ASSUME NEW c \in Callers, NEW call \in Calls, Call(c, call) PROVE TypeOK'
  <2>1. [id |-> calls + 1, typ |-> call.typ, series |-> call.series,
         value |-> call.value] \in Event
    BY <1>1, ClientAssumption DEF TypeOK, Call, Event, Ids
  <2>2. calls' \in 0..MaxCalls
    BY <1>1, ClientAssumption DEF TypeOK, Call
  <2>3. held' \in [Callers -> Event \cup {NoEvent}]
    BY <1>1, <2>1 DEF TypeOK, Call
  <2>4. QED
    BY <1>1, <2>2, <2>3 DEF TypeOK, Call
<1>2. ASSUME NEW c \in Callers, Enqueue(c) PROVE TypeOK'
  <2>1. held[c] \in Event
    BY <1>2 DEF TypeOK, Enqueue
  <2>2. held[c].id \in Ids
    BY <2>1 DEF Event
  <2>3. /\ Append(queue, held[c]) \in Seq(Event)
        /\ Len(Append(queue, held[c])) = Len(queue) + 1
    BY <2>1, AppendProperties DEF TypeOK
  <2>4. Len(queue) \in Nat
    BY LenProperties DEF TypeOK
  <2>5. queue' \in Seq(Event) /\ Len(queue') <= QueueSize
    <3>1. CASE HasRoom
      <4>1. Len(queue) < QueueSize /\ queue' = Append(queue, held[c])
        BY <1>2, <3>1 DEF Enqueue, HasRoom
      <4>2. QED
        BY <2>3, <2>4, <4>1, ClientAssumption
    <3>2. CASE ~HasRoom
      BY <1>2, <3>2 DEF TypeOK, Enqueue
    <3>3. QED
      BY <3>1, <3>2
  <2>6. held' \in [Callers -> Event \cup {NoEvent}]
    BY <1>2 DEF TypeOK, Enqueue
  <2>7. QED
    BY <1>2, <2>2, <2>5, <2>6 DEF TypeOK, Enqueue
<1>3. ASSUME NEW c \in Closers, ContextDone(c) PROVE TypeOK'
  BY <1>3 DEF TypeOK, ContextDone
<1>4. ASSUME NEW c \in Closers, CloseEnter(c) PROVE TypeOK'
  BY <1>4 DEF TypeOK, CloseEnter
<1>5. ASSUME NEW c \in Closers, CloseReturn(c) PROVE TypeOK'
  BY <1>5 DEF TypeOK, CloseReturn
<1>6. ASSUME Tick PROVE TypeOK'
  <2>1. Flush(batch, "tickPass") /\ batch \in Seq(Ids)
    BY <1>6 DEF Tick, TypeOK
  <2>2. QED
    BY <1>6, <2>1, FlushType DEF TypeOK, Tick, Continuations
<1>7. ASSUME Receive PROVE TypeOK'
  <2> DEFINE ev == Head(queue)
  <2>1. /\ ev \in Event
        /\ Tail(queue) \in Seq(Event)
        /\ Len(Tail(queue)) <= QueueSize
    <3>1. queue \in Seq(Event) /\ queue # <<>> /\ Len(queue) <= QueueSize
      BY <1>7 DEF TypeOK, Receive
    <3>2. Len(queue) \in Nat
      BY <3>1, LenProperties
    <3>3. QED
      BY <3>1, <3>2, HeadTailProperties, ClientAssumption
  <2>2. ev.id \in Ids /\ ev.series \in Series /\ ev.value \in Nat
    BY <2>1 DEF Event
  <2>3. Append(batch, ev.id) \in Seq(Ids)
    BY <2>2, AppendProperties DEF TypeOK
  <2>4. totals' \in [Series -> Nat \cup {NoTotal}]
    <3>1. \/ totals' = totals
          \/ totals' = [totals EXCEPT ![ev.series] = ev.value]
      BY <1>7 DEF Receive, applyTotal
    <3>2. QED
      BY <2>2, <3>1 DEF TypeOK
  <2>5. /\ pc' \in WorkerPC
        /\ ret' \in Continuations
        /\ batch' \in Seq(Ids)
        /\ cur' \in Sending
        /\ batchSeq' \in Nat
        /\ lost' \subseteq Ids
        /\ sends' \in Seq(Nat)
    <3>1. CASE Flush(Append(batch, ev.id), pc)
      BY <1>7, <2>3, <3>1, FlushType DEF Receive, Continuations
    <3>2. CASE ~Flush(Append(batch, ev.id), pc)
      BY <1>7, <2>3, <3>2 DEF TypeOK, Receive, Continuations
    <3>3. QED
      BY <3>1, <3>2
  <2>6. absorbed' \subseteq Ids
    BY <1>7, <2>2 DEF TypeOK, Receive
  <2>7. QED
    BY <1>7, <2>1, <2>4, <2>5, <2>6 DEF TypeOK, Receive, Continuations
<1>8. ASSUME Cancel PROVE TypeOK'
  BY <1>8 DEF TypeOK, Cancel, AfterCancel, WorkerPC
<1>9. ASSUME Drained PROVE TypeOK'
  <2>1. Flush(batch, "closePass") /\ batch \in Seq(Ids)
    BY <1>9 DEF Drained, TypeOK
  <2>2. QED
    BY <1>9, <2>1, FlushType DEF TypeOK, Drained, Continuations
<1>10. ASSUME PassBegin PROVE TypeOK'
  <2>1. ProcessLimit \in Nat
    BY LenProperties, ClientAssumption DEF TypeOK, ProcessLimit
  <2>2. QED
    <3>1. pc' \in {"exited", "select", "pass"}
      BY <1>10 DEF PassBegin, AfterPass
    <3>2. PICK b \in BOOLEAN :
            \/ pass' = NoPass
            \/ pass' = [ignoreBackoff |-> b, i |-> 1, processed |-> 0,
                        processLimit |-> ProcessLimit, sent |-> {}]
      <4>1. (pc = "closePass") \in BOOLEAN
        OBVIOUS
      <4>2. QED
        BY <1>10, <4>1, Zenon DEF PassBegin
    <3>3. pass' \in Pass
      <4>1. NoPass \in Pass
        BY DEF NoPass, Pass
      <4>2. [ignoreBackoff |-> b, i |-> 1, processed |-> 0,
             processLimit |-> ProcessLimit, sent |-> {}] \in Pass
        BY <2>1 DEF Pass
      <4>3. QED
        BY <3>2, <4>1, <4>2
    <3>4. QED
      BY <1>10, <3>1, <3>3 DEF TypeOK, PassBegin, WorkerPC
<1>11. ASSUME PassPick PROVE TypeOK'
  <2>1. PICK j \in DueIndices :
          /\ retryQueue' = Without(retryQueue, j)
          /\ cur' = Resend(retryQueue[j])
          /\ pass' = [pass EXCEPT !.i = j, !.processed = @ + 1]
    BY <1>11 DEF PassPick
  <2>2. j \in 1..Len(retryQueue) /\ j \in Nat
    <3>1. pass \in Pass /\ Len(retryQueue) \in Nat
      BY LenProperties DEF TypeOK
    <3>2. QED
      BY <2>1, <3>1 DEF DueIndices, Pass
  <2>3. retryQueue' \in Seq(RetryBatch)
    BY <2>1, <2>2, WithoutType DEF TypeOK
  <2>4. retryQueue[j] \in RetryBatch
    BY <2>2, ElementOfSeq DEF TypeOK
  <2>5. cur' \in Sending
    BY <2>1, <2>4 DEF RetryBatch, Resend, Sending
  <2>6. pass' \in Pass
    <3>1. /\ pass \in Pass
          /\ pass.processed + 1 \in Nat
          /\ j \in Nat \ {0}
      BY <2>2 DEF TypeOK, Pass
    <3>2. pass' = [pass EXCEPT !.i = j, !.processed = pass.processed + 1]
      BY <2>1
    <3>3. QED
      BY <3>1, <3>2 DEF Pass
  <2>7. QED
    BY <1>11, <2>3, <2>5, <2>6 DEF TypeOK, PassPick, WorkerPC
<1>12. ASSUME PassEnd PROVE TypeOK'
  BY <1>12 DEF TypeOK, PassEnd, AfterPass, WorkerPC
<1>13. ASSUME SendStopped PROVE TypeOK'
  BY <1>13, <1>a, <1>b, <1>c DEF TypeOK, SendStopped, Return
<1>14. ASSUME Defer PROVE TypeOK'
  <2>1. LastAttempt \in Nat /\ nextSendAttempt \in Nat
    BY <1>14, <1>a DEF TypeOK, Defer, LastAttempt
  <2>2. retryQueue' \in Seq(RetryBatch) /\ lost' \subseteq Ids
    BY <1>14, <2>1, EnqueueRetryType DEF Defer
  <2>3. QED
    BY <1>14, <1>b, <1>c, <2>2 DEF TypeOK, Defer, Return
<1>15. ASSUME Send PROVE TypeOK'
  <2>1. sends' \in Seq(Nat)
    <3>1. /\ sends \in Seq(Nat) /\ cur.batch \in 1..Len(sends)
          /\ sends' = [sends EXCEPT ![cur.batch] = sends[cur.batch] + 1]
      BY <1>15 DEF TypeOK, Send, RetryInv, OneCopy, Active
    <3>2. sends[cur.batch] + 1 \in Nat
      BY <3>1, ElementOfSeq
    <3>3. QED
      BY <3>1, <3>2, ExceptSeq
  <2>2. wire' \subseteq Payload
    BY <1>15, <1>a DEF TypeOK, Send, Payload, Sending
  <2>3. pass' \in Pass
    <3>1. pass \in Pass /\ cur.batch \in Nat
      BY <1>a DEF TypeOK, Sending
    <3>2. pass.sent \cup {cur.batch} \in SUBSET Nat
      BY <3>1 DEF Pass
    <3>3. \/ pass' = pass
          \/ pass' = [pass EXCEPT !.sent = pass.sent \cup {cur.batch}]
      BY <1>15 DEF Send
    <3>4. QED
      BY <3>1, <3>2, <3>3 DEF Pass
  <2>4. QED
    BY <1>15, <2>1, <2>2, <2>3 DEF TypeOK, Send, WorkerPC
<1>16. ASSUME SendOK PROVE TypeOK'
  BY <1>16, <1>a, <1>b, <1>c, ClientAssumption DEF TypeOK, SendOK, Return
<1>17. ASSUME SendTransient PROVE TypeOK'
  <2>1. transientBackoffAttempt' \in 1..BackoffCap
    BY <1>17, ClientAssumption DEF TypeOK, SendTransient
  <2>2. nextSendAttempt' \in Nat
    BY <1>17, <2>1, ClientAssumption DEF SendTransient
  <2>3. PICK d \in RetryDelays[cur.attempt] : enqueueRetryAt(cur.attempt, d)
    BY <1>17 DEF SendTransient
  <2>4. d \in Nat
    BY <1>17, <2>3, ClientAssumption
       DEF SendTransient, RetryInv, Counted, Active
  <2>5. retryQueue' \in Seq(RetryBatch) /\ lost' \subseteq Ids
    BY <1>a, <2>3, <2>4, EnqueueRetryType
  <2>6. transientBackoffAttempt' \in 0..BackoffCap
    BY <2>1
  <2>7. QED
    BY <1>17, <1>b, <1>c, <2>2, <2>5, <2>6 DEF TypeOK, SendTransient, Return
<1>18. ASSUME SendFatal PROVE TypeOK'
  BY <1>18, <1>a, <1>b, <1>c DEF TypeOK, SendFatal, Return
<1>19. ASSUME Elapse PROVE TypeOK'
  <2>1. retryQueue' \in Seq(RetryBatch)
    <3>1. retryQueue \in Seq(RetryBatch) /\ Len(retryQueue) \in Nat
      BY LenProperties DEF TypeOK
    <3>2. \A i \in 1..Len(retryQueue) :
            [retryQueue[i] EXCEPT !.nextAttempt = Less(@)] \in RetryBatch
      <4>1. TAKE i \in 1..Len(retryQueue)
      <4>2. retryQueue[i] \in RetryBatch
        BY <3>1, ElementOfSeq
      <4>3. QED
        BY <4>2 DEF RetryBatch, Less
    <3>3. retryQueue' \in [1..Len(retryQueue) -> RetryBatch]
      BY <1>19, <3>2 DEF Elapse
    <3>4. QED
      BY <3>1, <3>3, SeqOfFunction
  <2>2. nextSendAttempt' \in Nat
    BY <1>19 DEF TypeOK, Elapse, Less
  <2>3. QED
    BY <1>19, <2>1, <2>2 DEF TypeOK, Elapse
<1>20. ASSUME UNCHANGED vars PROVE TypeOK'
  BY <1>20 DEF TypeOK, vars
<1>21. QED
  BY <1>1, <1>2, <1>3, <1>4, <1>5, <1>6, <1>7, <1>8, <1>9, <1>10, <1>11,
     <1>12, <1>13, <1>14, <1>15, <1>16, <1>17, <1>18, <1>19, <1>20
     DEF Next, Terminated

-----------------------------------------------------------------------------
(* Retries: one copy of a batch, counted attempts, room for a deferral     *)

\* A step that leaves batches and the retry queue alone and is not in the middle
\* of sendPayload afterwards, or is where it was, keeps the invariant.
LEMMA RetryFrame ==
  ASSUME RetryInv, UNCHANGED <<retryQueue, sends, batchSeq>>,
         ~Active' \/ UNCHANGED <<pc, cur>>
  PROVE  RetryInv'
  BY DEF RetryInv, OneCopy, Counted, Room, Active

\* buildPayload gives a fresh batch an id that no other batch has
\* (client.go:428-439).
LEMMA FlushRetry ==
  ASSUME TypeOK, RetryInv, ~Active, NEW e \in Seq(Ids),
         NEW n \in Continuations, Flush(e, n), UNCHANGED retryQueue
  PROVE  RetryInv'
<1>1. CASE UNCHANGED <<sends, batchSeq>> /\ pc' = n
  BY <1>1, RetryFrame DEF Active, Continuations
<1>2. CASE /\ pc' = "gate"
           /\ batchSeq' = batchSeq + 1
           /\ sends' = Append(sends, 0)
           /\ cur' = [batch |-> batchSeq + 1, events |-> Elements(e),
                      attempt |-> 1, fromRetry |-> FALSE]
  <2>1. /\ Len(sends') = batchSeq + 1
        /\ \A b \in 1..batchSeq : sends'[b] = sends[b]
        /\ sends'[batchSeq + 1] = 0
        /\ batchSeq \in Nat
    BY <1>2, AppendProperties DEF TypeOK, RetryInv, OneCopy
  <2>2. /\ cur'.batch = batchSeq + 1 /\ cur'.attempt = 1
        /\ cur'.fromRetry = FALSE
    BY <1>2
  <2>3. OneCopy'
    BY <1>2, <2>1, <2>2 DEF RetryInv, OneCopy
  <2>4. Counted'
    BY <1>2, <2>1, <2>2, ClientAssumption
       DEF RetryInv, OneCopy, Counted, Active
  <2>5. Room'
    BY <2>2 DEF RetryInv, Room
  <2>6. QED
    BY <2>3, <2>4, <2>5 DEF RetryInv
<1>3. QED
  BY <1>1, <1>2 DEF Flush

\* sendPayload returns after enqueueRetryAt: the batch goes to the tail, with
\* the attempts it has really used, or is dropped (client.go:512-556).
LEMMA EnqueueRetry ==
  ASSUME TypeOK, RetryInv, Active, Return, UNCHANGED <<sends, batchSeq>>,
         NEW a \in Nat, NEW t \in Nat, enqueueRetryAt(a, t),
         a = sends[cur.batch]
  PROVE  RetryInv'
<1> DEFINE r == [batch |-> cur.batch, events |-> cur.events,
                 attempts |-> a, nextAttempt |-> t]
<1>1. ~Active'
  BY DEF Return, Active, TypeOK
<1>2. CASE UNCHANGED retryQueue
  BY <1>1, <1>2, RetryFrame
<1>3. CASE ~Refused(a) /\ retryQueue' = Append(retryQueue, r)
  <2>1. r \in RetryBatch
    BY DEF TypeOK, Sending, RetryBatch
  <2>2. /\ Len(retryQueue) \in Nat
        /\ Len(retryQueue') = Len(retryQueue) + 1
        /\ \A i \in 1..Len(retryQueue) : retryQueue'[i] = retryQueue[i]
        /\ retryQueue'[Len(retryQueue) + 1] = r
    BY <1>3, <2>1, AppendProperties, LenProperties DEF TypeOK
  <2>3. a < RetryMaxAttempts /\ Len(retryQueue) < RetryQueueSize
    BY <1>3, <2>2, ClientAssumption DEF Refused
  <2>4. /\ \A i \in 1..Len(retryQueue') :
             i \in 1..Len(retryQueue) \/ i = Len(retryQueue) + 1
        /\ retryQueue'[Len(retryQueue) + 1].batch = cur.batch
        /\ retryQueue'[Len(retryQueue) + 1].attempts = a
    BY <2>2
  <2>5. OneCopy'
    BY <1>1, <2>2, <2>4 DEF RetryInv, OneCopy
  <2>6. Counted'
    BY <1>1, <2>2, <2>3, <2>4 DEF RetryInv, OneCopy, Counted, Active
  <2>7. Room'
    BY <1>1, <2>2, <2>3, ClientAssumption DEF Room
  <2>8. QED
    BY <2>5, <2>6, <2>7 DEF RetryInv
<1>4. QED
  BY <1>2, <1>3 DEF enqueueRetryAt

LEMMA RetryInit == Init => RetryInv
  BY EmptySeq, ClientAssumption
     DEF Init, RetryInv, OneCopy, Counted, Room, Active

LEMMA RetryStep == TypeOK /\ RetryInv /\ [Next]_vars => RetryInv'
<1> SUFFICES ASSUME TypeOK, RetryInv, [Next]_vars PROVE RetryInv'
  OBVIOUS
<1> USE DEF shared, goroutines, worker, backoff, history
<1>1. ASSUME NEW c \in Callers, NEW call \in Calls, Call(c, call)
      PROVE  RetryInv'
  BY <1>1, RetryFrame DEF Call
<1>2. ASSUME NEW c \in Callers, Enqueue(c) PROVE RetryInv'
  BY <1>2, RetryFrame DEF Enqueue
<1>3. ASSUME NEW c \in Closers, ContextDone(c) \/ CloseEnter(c) \/ CloseReturn(c)
      PROVE  RetryInv'
  BY <1>3, RetryFrame DEF ContextDone, CloseEnter, CloseReturn
<1>4. ASSUME Tick PROVE RetryInv'
  <2>1. /\ ~Active /\ batch \in Seq(Ids)
        /\ Flush(batch, "tickPass") /\ UNCHANGED retryQueue
    BY <1>4 DEF Tick, Active, TypeOK
  <2>2. QED
    BY <2>1, FlushRetry DEF Continuations
<1>5. ASSUME Receive PROVE RetryInv'
  <2>1. ~Active /\ UNCHANGED retryQueue /\ pc \in Continuations
    BY <1>5 DEF Receive, Active, Continuations
  <2>2. CASE UNCHANGED <<pc, cur, sends, batchSeq>>
    BY <2>1, <2>2, RetryFrame
  <2>3. CASE Flush(Append(batch, Head(queue).id), pc)
    <3>1. Head(queue) \in Event
      BY <1>5, HeadTailProperties DEF Receive, TypeOK
    <3>2. Append(batch, Head(queue).id) \in Seq(Ids)
      BY <3>1, AppendProperties DEF TypeOK, Event
    <3>3. QED
      BY <2>1, <2>3, <3>2, FlushRetry
  <2>4. QED
    BY <1>5, <2>2, <2>3 DEF Receive
<1>6. ASSUME Cancel PROVE RetryInv'
  BY <1>6, RetryFrame DEF Cancel, AfterCancel, Active
<1>7. ASSUME Drained PROVE RetryInv'
  <2>1. /\ ~Active /\ batch \in Seq(Ids)
        /\ Flush(batch, "closePass") /\ UNCHANGED retryQueue
    BY <1>7 DEF Drained, Active, TypeOK
  <2>2. QED
    BY <2>1, FlushRetry DEF Continuations
<1>8. ASSUME PassBegin PROVE RetryInv'
  BY <1>8, RetryFrame DEF PassBegin, AfterPass, Active
<1>9. ASSUME PassPick PROVE RetryInv'
  <2>1. PICK j \in DueIndices :
          /\ retryQueue' = Without(retryQueue, j)
          /\ cur' = Resend(retryQueue[j])
    BY <1>9 DEF PassPick
  <2>2. j \in 1..Len(retryQueue) /\ Len(retryQueue) \in Nat
    <3>1. pass \in Pass /\ Len(retryQueue) \in Nat
      BY LenProperties DEF TypeOK
    <3>2. QED
      BY <2>1, <3>1 DEF DueIndices, Pass
  <2>3. /\ Len(retryQueue') = Len(retryQueue) - 1
        /\ \A k \in 1..(Len(retryQueue) - 1) :
             retryQueue'[k] = IF k < j THEN retryQueue[k] ELSE retryQueue[k + 1]
    BY <2>1, <2>2, WithoutType DEF TypeOK
  <2>4. /\ cur'.batch = retryQueue[j].batch
        /\ cur'.attempt = retryQueue[j].attempts + 1
    BY <2>1 DEF Resend
  <2>5. UNCHANGED <<sends, batchSeq>> /\ pc' = "gate"
    BY <1>9 DEF PassPick
  <2> DEFINE old(k) == IF k < j THEN k ELSE k + 1
  <2>a. /\ \A k \in 1..Len(retryQueue') :
             /\ old(k) \in 1..Len(retryQueue) /\ old(k) # j
             /\ retryQueue'[k] = retryQueue[old(k)]
        /\ \A k, m \in 1..Len(retryQueue') : old(k) = old(m) => k = m
    BY <2>2, <2>3
  <2> HIDE DEF old
  <2>6. OneCopy'
    <3>1. /\ \A i \in 1..Len(retryQueue') : retryQueue'[i].batch \in 1..batchSeq
          /\ \A i \in 1..Len(retryQueue') : retryQueue'[i].batch # cur'.batch
          /\ cur'.batch \in 1..batchSeq
      BY <2>2, <2>a, <2>4 DEF RetryInv, OneCopy
    <3>2. \A i, m \in 1..Len(retryQueue') :
            retryQueue'[i].batch = retryQueue'[m].batch => i = m
      <4> TAKE i, m \in 1..Len(retryQueue')
      <4> HAVE retryQueue'[i].batch = retryQueue'[m].batch
      <4>1. old(i) = old(m)
        BY <2>a DEF RetryInv, OneCopy
      <4>2. QED
        BY <2>a, <4>1
    <3>3. QED
      BY <2>5, <3>1, <3>2 DEF RetryInv, OneCopy
  <2>7. Counted'
    <3>1. retryQueue[j] \in RetryBatch
      BY <2>2, ElementOfSeq DEF TypeOK
    <3>2. retryQueue[j].attempts \in Nat
      BY <3>1 DEF RetryBatch
    <3>3. cur'.attempt \in 1..RetryMaxAttempts
      BY <2>2, <2>4, <3>2, ClientAssumption DEF RetryInv, Counted
    <3>4. sends'[cur'.batch] = cur'.attempt - 1
      BY <2>2, <2>4, <2>5, <3>2 DEF RetryInv, Counted
    <3>5. QED
      BY <2>a, <2>5, <3>3, <3>4 DEF RetryInv, Counted
  <2>8. Room'
    BY <2>2, <2>3, ClientAssumption DEF RetryInv, Room
  <2>9. QED
    BY <2>6, <2>7, <2>8 DEF RetryInv
<1>10. ASSUME PassEnd PROVE RetryInv'
  BY <1>10, RetryFrame DEF PassEnd, AfterPass, Active
<1>11. ASSUME SendStopped \/ SendOK \/ SendFatal PROVE RetryInv'
  <2>1. ~Active'
    BY <1>11 DEF SendStopped, SendOK, SendFatal, Return, Active, TypeOK
  <2>2. QED
    BY <1>11, <2>1, RetryFrame DEF SendStopped, SendOK, SendFatal
<1>12. ASSUME Defer PROVE RetryInv'
  <2>1. /\ Active /\ pc = "gate" /\ Return /\ UNCHANGED <<sends, batchSeq>>
        /\ enqueueRetryAt(LastAttempt, nextSendAttempt)
    BY <1>12 DEF Defer, Active
  <2>2. LastAttempt \in Nat /\ LastAttempt = sends[cur.batch]
    BY <2>1, ClientAssumption DEF LastAttempt, RetryInv, Counted
  <2>3. nextSendAttempt \in Nat
    BY DEF TypeOK
  <2>4. QED
    BY <2>1, <2>2, <2>3, EnqueueRetry
<1>13. ASSUME Send PROVE RetryInv'
  <2>1. /\ pc = "gate" /\ pc' = "transport" /\ Active
        /\ UNCHANGED <<cur, retryQueue, batchSeq>>
        /\ sends' = [sends EXCEPT ![cur.batch] = sends[cur.batch] + 1]
    BY <1>13 DEF Send, Active
  <2>2. sends \in Seq(Nat) /\ cur.batch \in 1..Len(sends)
    BY <2>1 DEF TypeOK, RetryInv, OneCopy
  <2>3. /\ Len(sends') = Len(sends)
        /\ \A b \in 1..Len(sends) :
             sends'[b] = IF b = cur.batch THEN sends[b] + 1 ELSE sends[b]
    <3>1. sends[cur.batch] + 1 \in Nat
      BY <2>2, ElementOfSeq
    <3>2. QED
      BY <2>1, <2>2, <3>1, ExceptSeq
  <2>4. OneCopy'
    BY <2>1, <2>3 DEF RetryInv, OneCopy, Active
  <2>5. Counted'
    <3>1. /\ sends[cur.batch] = cur.attempt - 1
          /\ cur.attempt \in 1..RetryMaxAttempts
      BY <2>1 DEF RetryInv, Counted
    <3>2. sends'[cur.batch] = cur.attempt
      BY <2>2, <2>3, <3>1, ClientAssumption
    <3>3. \A b \in 1..Len(sends') : sends'[b] <= RetryMaxAttempts
      BY <2>3, <3>1, <3>2, ClientAssumption DEF RetryInv, Counted
    <3>4. \A i \in 1..Len(retryQueue) :
            sends'[retryQueue[i].batch] = sends[retryQueue[i].batch]
      BY <2>1, <2>3 DEF RetryInv, OneCopy
    <3>5. QED
      BY <2>1, <3>1, <3>2, <3>3, <3>4 DEF RetryInv, Counted
  <2>6. Room'
    BY <2>1 DEF RetryInv, Room, Active
  <2>7. QED
    BY <2>4, <2>5, <2>6 DEF RetryInv
<1>14. ASSUME SendTransient PROVE RetryInv'
  <2>1. /\ Active /\ pc = "transport" /\ Return /\ UNCHANGED <<sends, batchSeq>>
    BY <1>14 DEF SendTransient, Active
  <2>2. PICK d \in RetryDelays[cur.attempt] : enqueueRetryAt(cur.attempt, d)
    BY <1>14 DEF SendTransient
  <2>3. /\ cur.attempt \in 1..RetryMaxAttempts
        /\ cur.attempt = sends[cur.batch]
    BY <2>1 DEF RetryInv, Counted
  <2>4. d \in Nat /\ cur.attempt \in Nat
    BY <2>2, <2>3, ClientAssumption
  <2>5. QED
    BY <2>1, <2>2, <2>3, <2>4, EnqueueRetry
<1>15. ASSUME Elapse PROVE RetryInv'
  <2>1. UNCHANGED <<sends, batchSeq, cur, pc>>
    BY <1>15 DEF Elapse
  <2>2. /\ Len(retryQueue) \in Nat
        /\ Len(retryQueue') = Len(retryQueue)
        /\ \A i \in 1..Len(retryQueue) :
             /\ retryQueue'[i].batch = retryQueue[i].batch
             /\ retryQueue'[i].attempts = retryQueue[i].attempts
    <3>1. retryQueue \in Seq(RetryBatch) /\ Len(retryQueue) \in Nat
      BY LenProperties DEF TypeOK
    <3>2. retryQueue' = [i \in 1..Len(retryQueue) |->
                           [retryQueue[i] EXCEPT !.nextAttempt = Less(@)]]
      BY <1>15 DEF Elapse
    <3>3. Len(retryQueue') = Len(retryQueue)
      BY <3>1, <3>2
    <3>4. ASSUME NEW i \in 1..Len(retryQueue)
          PROVE  /\ retryQueue'[i].batch = retryQueue[i].batch
                 /\ retryQueue'[i].attempts = retryQueue[i].attempts
      <4>1. retryQueue[i] \in RetryBatch
        BY <3>1, ElementOfSeq
      <4>2. QED
        BY <3>2, <4>1 DEF RetryBatch
    <3>5. QED
      BY <3>1, <3>3, <3>4
  <2>3. OneCopy' /\ Counted' /\ Room'
    BY <2>1, <2>2 DEF RetryInv, OneCopy, Counted, Room, Active
  <2>4. QED
    BY <2>3 DEF RetryInv
<1>16. ASSUME UNCHANGED vars PROVE RetryInv'
  BY <1>16, RetryFrame DEF vars
<1>17. QED
  BY <1>1, <1>2, <1>3, <1>4, <1>5, <1>6, <1>7, <1>8, <1>9, <1>10, <1>11,
     <1>12, <1>13, <1>14, <1>15, <1>16 DEF Next, Terminated

-----------------------------------------------------------------------------
(* Close: what was in the queue before it is flushed                       *)

LEMMA FreshStep == TypeOK /\ FreshIds /\ [Next]_vars => FreshIds'
<1> SUFFICES ASSUME TypeOK, FreshIds, [Next]_vars PROVE FreshIds'
  OBVIOUS
<1> USE DEF shared, goroutines, worker, backoff, history
<1>1. ASSUME NEW c \in Callers, NEW call \in Calls, Call(c, call)
      PROVE  FreshIds'
  <2> DEFINE e == [id |-> calls + 1, typ |-> call.typ, series |-> call.series,
                   value |-> call.value]
  <2>1. /\ calls \in Nat /\ calls' = calls + 1
        /\ held \in [Callers -> Event \cup {NoEvent}]
        /\ held' = [held EXCEPT ![c] = e]
        /\ e.id = calls + 1
        /\ UNCHANGED early
    BY <1>1 DEF TypeOK, Call
  <2> HIDE DEF e
  <2>2. QED
    BY <2>1 DEF FreshIds
<1>2. ASSUME NEW c \in Callers, Enqueue(c) PROVE FreshIds'
  <2>1. /\ calls \in Nat /\ UNCHANGED calls
        /\ held[c] # NoEvent
        /\ held \in [Callers -> Event \cup {NoEvent}]
        /\ held' = [held EXCEPT ![c] = NoEvent]
        /\ early' \subseteq early \cup {held[c].id}
    BY <1>2 DEF TypeOK, Enqueue
  <2>2. QED
    BY <2>1 DEF FreshIds
<1>3. ASSUME UNCHANGED <<calls, held, early>> PROVE FreshIds'
  BY <1>3 DEF FreshIds
<1>4. ASSUME NEW c \in Closers, ContextDone(c) \/ CloseEnter(c) \/ CloseReturn(c)
      PROVE  FreshIds'
  BY <1>3, <1>4 DEF ContextDone, CloseEnter, CloseReturn
<1>5. QED
  BY <1>1, <1>2, <1>3, <1>4
     DEF Next, Terminated, vars, Tick, Receive, Cancel, Drained, PassBegin,
         PassPick, PassEnd, SendStopped, Defer, Send, SendOK, SendTransient,
         SendFatal, Elapse

\* A step that leaves the worker's place, the queue and the batch alone.
LEMMA DrainFrame ==
  ASSUME DrainInv, cancelled => cancelled',
         UNCHANGED <<queue, early, pc, ret, batch, pass>>
  PROVE  DrainInv'
  BY DEF DrainInv, AfterDrain, Active

\* sendPayload returns to where it was called (client.go:441-478).
LEMMA DrainReturn ==
  ASSUME TypeOK, DrainInv, Active, Return,
         UNCHANGED <<queue, early, batch, pass, cancelled>>
  PROVE  DrainInv'
<1>1. /\ pc' = ret
      /\ ret \in {"select", "drain", "tickPass", "closePass", "pass"}
  BY DEF Return, TypeOK
<1>2. QED
  BY <1>1 DEF DrainInv, AfterDrain, Active

\* flush leads to the given place, through sendPayload or at once.
LEMMA FlushTarget ==
  ASSUME NEW e, NEW n, Flush(e, n)
  PROVE  batch' = <<>> /\ (pc' = n \/ (pc' = "gate" /\ ret' = n))
  BY DEF Flush

LEMMA DrainStep ==
  TypeOK /\ FreshIds /\ DrainInv /\ [Next]_vars => DrainInv'
<1> SUFFICES ASSUME TypeOK, FreshIds, DrainInv, [Next]_vars PROVE DrainInv'
  OBVIOUS
<1> USE DEF shared, goroutines, worker, backoff, history
<1>1. ASSUME NEW c \in Callers, NEW call \in Calls, Call(c, call)
      PROVE  DrainInv'
  BY <1>1, DrainFrame DEF Call
<1>2. ASSUME NEW c \in Callers, Enqueue(c) PROVE DrainInv'
  <2>1. /\ UNCHANGED <<pc, ret, batch, pass, cancelled>>
        /\ cancelled => UNCHANGED early
        /\ held[c] \in Event /\ held[c].id \notin early
        /\ queue' = queue \/ queue' = Append(queue, held[c])
        /\ queue \in Seq(Event)
    BY <1>2 DEF TypeOK, Enqueue, FreshIds
  <2>2. CASE AfterDrain
    <3>1. \A i \in 1..Len(queue') : queue'[i].id \notin early
      <4>1. CASE queue' = queue
        BY <2>2, <4>1 DEF DrainInv
      <4>2. CASE queue' = Append(queue, held[c])
        <5>1. /\ Len(queue) \in Nat
              /\ Len(queue') = Len(queue) + 1
              /\ \A i \in 1..Len(queue) : queue'[i] = queue[i]
              /\ queue'[Len(queue) + 1] = held[c]
          BY <2>1, <4>2, AppendProperties, LenProperties
        <5>2. \A i \in 1..Len(queue') :
                i \in 1..Len(queue) \/ i = Len(queue) + 1
          BY <5>1
        <5>3. QED
          BY <2>1, <2>2, <5>1, <5>2 DEF DrainInv
      <4>3. QED
        BY <2>1, <4>1, <4>2
    <3>2. QED
      BY <2>1, <2>2, <3>1 DEF DrainInv, AfterDrain, Active
  <2>3. CASE ~AfterDrain
    BY <2>1, <2>3 DEF DrainInv, AfterDrain, Active
  <2>4. QED
    BY <2>2, <2>3
<1>3. ASSUME NEW c \in Closers, ContextDone(c) \/ CloseEnter(c) \/ CloseReturn(c)
      PROVE  DrainInv'
  BY <1>3, DrainFrame DEF ContextDone, CloseEnter, CloseReturn
<1>4. ASSUME Tick PROVE DrainInv'
  <2>1. pc' = "tickPass" \/ (pc' = "gate" /\ ret' = "tickPass")
    BY <1>4, FlushTarget DEF Tick
  <2>2. QED
    BY <2>1 DEF DrainInv, AfterDrain, Active
<1>5. ASSUME Receive PROVE DrainInv'
  <2>1. /\ pc \in {"select", "drain"}
        /\ UNCHANGED cancelled
        /\ pc' = pc \/ (pc' = "gate" /\ ret' = pc)
    BY <1>5, FlushTarget DEF Receive
  <2>2. QED
    BY <2>1 DEF DrainInv, AfterDrain, Active
<1>6. ASSUME Cancel PROVE DrainInv'
  BY <1>6 DEF Cancel, AfterCancel, DrainInv, AfterDrain, Active
<1>7. ASSUME Drained PROVE DrainInv'
  <2>1. /\ cancelled' /\ queue' = <<>> /\ batch' = <<>>
        /\ pc' = "closePass" \/ (pc' = "gate" /\ ret' = "closePass")
    BY <1>7, FlushTarget DEF Drained, DrainInv
  <2>2. \A i \in 1..Len(queue') : queue'[i].id \notin early'
    BY <2>1
  <2>3. QED
    BY <2>1, <2>2 DEF DrainInv, AfterDrain, Active
<1>8. ASSUME PassBegin PROVE DrainInv'
  <2>1. CASE pc = "closePass"
    BY <1>8, <2>1 DEF PassBegin, AfterPass, DrainInv, AfterDrain, Active
  <2>2. CASE pc = "tickPass"
    <3>1. /\ pc' \in {"select", "pass"}
          /\ \/ pass' = NoPass
             \/ pass' = [ignoreBackoff |-> FALSE, i |-> 1, processed |-> 0,
                         processLimit |-> ProcessLimit, sent |-> {}]
      <4>1. pc' \in {"select", "pass"}
        BY <1>8, <2>2 DEF PassBegin, AfterPass
      <4>2. (pc = "closePass") = FALSE
        BY <2>2
      <4>3. QED
        BY <1>8, <4>1, <4>2, Zenon DEF PassBegin
    <3>2. ~pass'.ignoreBackoff
      BY <3>1 DEF NoPass
    <3>3. QED
      BY <3>1, <3>2 DEF DrainInv, AfterDrain, Active
  <2>3. QED
    BY <1>8, <2>1, <2>2 DEF PassBegin
<1>9. ASSUME PassPick PROVE DrainInv'
  <2>1. /\ pc = "pass" /\ pc' = "gate" /\ ret' = "pass"
        /\ UNCHANGED <<queue, early, batch, cancelled>>
    BY <1>9 DEF PassPick
  <2>2. pass'.ignoreBackoff = pass.ignoreBackoff
    <3>1. pass \in Pass
      BY DEF TypeOK
    <3>2. PICK j \in DueIndices :
            pass' = [pass EXCEPT !.i = j, !.processed = @ + 1]
      BY <1>9 DEF PassPick
    <3>3. QED
      BY <3>1, <3>2 DEF Pass
  <2>3. QED
    BY <2>1, <2>2 DEF DrainInv, AfterDrain, Active
<1>10. ASSUME PassEnd PROVE DrainInv'
  BY <1>10 DEF PassEnd, AfterPass, DrainInv, AfterDrain, Active
<1>11. ASSUME SendStopped \/ Defer \/ SendOK \/ SendTransient \/ SendFatal
       PROVE  DrainInv'
  <2>1. Active /\ Return /\ UNCHANGED <<queue, early, batch, pass, cancelled>>
    BY <1>11
       DEF SendStopped, Defer, SendOK, SendTransient, SendFatal, Active
  <2>2. QED
    BY <2>1, DrainReturn
<1>12. ASSUME Send PROVE DrainInv'
  <2>1. /\ pc = "gate" /\ pc' = "transport"
        /\ UNCHANGED <<queue, early, batch, cancelled, ret>>
    BY <1>12 DEF Send
  <2>2. pass'.ignoreBackoff = pass.ignoreBackoff
    <3>1. pass \in Pass
      BY DEF TypeOK
    <3>2. \/ pass' = pass
          \/ pass' = [pass EXCEPT !.sent = pass.sent \cup {cur.batch}]
      BY <1>12 DEF Send
    <3>3. QED
      BY <3>1, <3>2 DEF Pass
  <2>3. QED
    BY <2>1, <2>2 DEF DrainInv, AfterDrain, Active
<1>13. ASSUME Elapse PROVE DrainInv'
  BY <1>13, DrainFrame DEF Elapse
<1>14. ASSUME UNCHANGED vars PROVE DrainInv'
  BY <1>14, DrainFrame DEF vars
<1>15. QED
  BY <1>1, <1>2, <1>3, <1>4, <1>5, <1>6, <1>7, <1>8, <1>9, <1>10, <1>11,
     <1>12, <1>13, <1>14 DEF Next, Terminated

LEMMA CloseInit == Init => CloseInv
  BY EmptySeq, ClientAssumption
     DEF Init, CloseInv, FreshIds, DrainInv, AfterDrain, Active

\* The inductive invariant holds in every reachable state.
LEMMA Invariant == Spec => [](TypeOK /\ RetryInv /\ CloseInv)
<1>1. Init => TypeOK /\ RetryInv /\ CloseInv
  BY TypeInit, RetryInit, CloseInit
<1>2. TypeOK /\ RetryInv /\ CloseInv /\ [Next]_vars
        => TypeOK' /\ RetryInv' /\ CloseInv'
  BY TypeStep, RetryStep, FreshStep, DrainStep DEF CloseInv
<1>3. QED
  BY <1>1, <1>2, PTL DEF Spec

-----------------------------------------------------------------------------
(* Theorems                                                                *)

\* Type correctness of the client, the bound of the event queue included.
THEOREM ClientTypeCorrect == Spec => []TypeOK
  BY Invariant, PTL

\* Retrying is bounded for every budget and every queue size: a batch is handed
\* to the transport at most RetryMaxAttempts times, deferrals or not.
THEOREM ClientRetryBounded == Spec => []RetryBounded
<1>1. TypeOK /\ RetryInv => RetryBounded
  BY DEF RetryInv, Room, Counted, RetryBounded
<1>2. QED
  BY <1>1, Invariant, PTL

\* A resend that meets the client's gate is never lost, whatever the size of the
\* retry queue, although deferForClientBackoff ignores enqueueRetryAt's result.
THEOREM ClientDeferralNeverLoses == Spec => DeferralNeverLoses
<1>1. TypeOK /\ RetryInv /\ [Next]_vars
        => [pc = "gate" /\ cur.fromRetry /\ ~stopSending => lost' = lost]_vars
  <2> SUFFICES ASSUME TypeOK, RetryInv, [Next]_vars,
                      pc = "gate" /\ cur.fromRetry /\ ~stopSending
               PROVE  lost' = lost
    OBVIOUS
  <2> USE DEF shared, goroutines, worker, backoff, history
  <2>1. CASE Defer
    <3>1. enqueueRetryAt(LastAttempt, nextSendAttempt)
      BY <2>1 DEF Defer
    <3>2. LastAttempt < RetryMaxAttempts /\ Len(retryQueue) < RetryQueueSize
      BY ClientAssumption DEF LastAttempt, RetryInv, Counted, Room, Active
    <3>3. LastAttempt \in Nat /\ Len(retryQueue) \in Nat
      BY ClientAssumption, LenProperties
         DEF LastAttempt, RetryInv, Counted, Active, TypeOK
    <3>4. ~Refused(LastAttempt)
      BY <3>2, <3>3, ClientAssumption DEF Refused
    <3>5. QED
      BY <3>1, <3>4 DEF enqueueRetryAt
  <2>2. CASE Send
    BY <2>2 DEF Send
  <2>3. CASE \E c \in Closers : ContextDone(c) \/ CloseEnter(c) \/ CloseReturn(c)
    BY <2>3 DEF ContextDone, CloseEnter, CloseReturn
  <2>4. CASE \E c \in Callers : Enqueue(c)
    BY <2>4 DEF Enqueue
  <2>5. CASE \E c \in Callers : \E call \in Calls : Call(c, call)
    BY <2>5 DEF Call
  <2>6. CASE Elapse
    BY <2>6 DEF Elapse
  <2>7. CASE UNCHANGED vars
    BY <2>7 DEF vars
  <2>8. QED
    BY <2>1, <2>2, <2>3, <2>4, <2>5, <2>6, <2>7
       DEF Next, Terminated, Tick, Receive, Cancel, Drained, PassBegin,
           PassPick, PassEnd, SendStopped, SendOK, SendTransient, SendFatal
<1>2. QED
  BY <1>1, Invariant, PTL DEF Spec, DeferralNeverLoses

\* Close flushes every event that was in the queue before it: none is left in
\* the queue or the batch once the worker has gone, for every number of callers
\* and closers and however sends, retries and the client's gate interleave.
THEOREM ClientCloseDrains == Spec => []CloseDrains
<1>1. TypeOK /\ CloseInv => CloseDrains
  <2> SUFFICES ASSUME TypeOK, CloseInv, Done
               PROVE  early \cap (QueuedIds \cup Elements(batch)) = {}
    BY DEF CloseDrains
  <2>1. batch = <<>> /\ \A i \in 1..Len(queue) : queue[i].id \notin early
    BY DEF CloseInv, DrainInv, AfterDrain, Done
  <2>2. early \cap QueuedIds = {}
    BY <2>1 DEF QueuedIds, Elements
  <2>3. Elements(batch) = {}
    BY <2>1 DEF Elements
  <2>4. QED
    BY <2>2, <2>3
<1>2. QED
  BY <1>1, Invariant, PTL

\* A client that was told to stop never hands a payload to the transport again
\* and never comes back.
THEOREM ClientStopIsFinal == Spec => StopIsFinal
<1>1. [Next]_vars
        => [stopSending => stopSending' /\ wire' = wire /\ sends' = sends]_vars
  <2> SUFFICES ASSUME [Next]_vars, stopSending
               PROVE  stopSending' /\ wire' = wire /\ sends' = sends
    OBVIOUS
  <2> USE DEF shared, goroutines, worker, backoff, history
  <2>1. ASSUME NEW c \in Callers, NEW call \in Calls, Call(c, call)
        PROVE  stopSending' /\ wire' = wire /\ sends' = sends
    BY <2>1 DEF Call
  <2>2. ASSUME NEW c \in Callers, Enqueue(c)
        PROVE  stopSending' /\ wire' = wire /\ sends' = sends
    BY <2>2 DEF Enqueue
  <2>3. ASSUME NEW c \in Closers,
               ContextDone(c) \/ CloseEnter(c) \/ CloseReturn(c)
        PROVE  stopSending' /\ wire' = wire /\ sends' = sends
    BY <2>3 DEF ContextDone, CloseEnter, CloseReturn
  <2>4. ASSUME Tick \/ Receive \/ Drained
        PROVE  stopSending' /\ wire' = wire /\ sends' = sends
    BY <2>4 DEF Tick, Receive, Drained, Flush
  <2>5. ASSUME \/ Cancel \/ PassBegin \/ PassPick \/ PassEnd \/ SendStopped
               \/ Defer \/ Send \/ SendOK \/ SendTransient \/ SendFatal
               \/ Elapse \/ UNCHANGED vars
        PROVE  stopSending' /\ wire' = wire /\ sends' = sends
    BY <2>5 DEF Cancel, PassBegin, PassPick, PassEnd, SendStopped, Defer, Send,
                MaySend, SendOK, SendTransient, SendFatal, Elapse, vars
  <2>6. QED
    BY <2>1, <2>2, <2>3, <2>4, <2>5 DEF Next, Terminated
<1>2. QED
  BY <1>1, PTL DEF Spec, StopIsFinal

-----------------------------------------------------------------------------
(* Events that move between places                                         *)

\* The sets P[i] share out the elements of S.
Shared(P, I, S) ==
  /\ \A e : e \in S <=> \E i \in I : e \in P[i]
  /\ \A i, j \in I : i # j => P[i] \cap P[j] = {}

\* Some elements of one set move to another.
Moves(P, Q, I, i, j, M) ==
  /\ M \subseteq P[i]
  /\ Q[i] = P[i] \ M
  /\ Q[j] = P[j] \cup M
  /\ \A k \in I \ {i, j} : Q[k] = P[k]

\* Moving elements from one set to another loses none and doubles none.
LEMMA MoveShares ==
  ASSUME NEW P, NEW Q, NEW I, NEW S, NEW i \in I, NEW j \in I, NEW M,
         i # j, Shared(P, I, S), Moves(P, Q, I, i, j, M)
  PROVE  Shared(Q, I, S)
<1>1. \A e : e \in S <=> \E k \in I : e \in Q[k]
  <2> SUFFICES ASSUME NEW e PROVE e \in S <=> \E k \in I : e \in Q[k]
    OBVIOUS
  <2>1. e \in S <=> \E k \in I : e \in P[k]
    BY DEF Shared
  <2>2. ASSUME NEW k \in I, e \in P[k] PROVE \E l \in I : e \in Q[l]
    <3>1. CASE k = i /\ e \in M
      BY <3>1 DEF Moves
    <3>2. CASE k = i /\ e \notin M
      BY <2>2, <3>2 DEF Moves
    <3>3. CASE k # i
      BY <2>2, <3>3 DEF Moves
    <3>4. QED
      BY <3>1, <3>2, <3>3
  <2>3. ASSUME NEW k \in I, e \in Q[k] PROVE \E l \in I : e \in P[l]
    <3>1. CASE k = i
      BY <2>3, <3>1 DEF Moves
    <3>2. CASE k = j
      BY <2>3, <3>2 DEF Moves
    <3>3. CASE k \in I \ {i, j}
      BY <2>3, <3>3 DEF Moves
    <3>4. QED
      BY <3>1, <3>2, <3>3
  <2>4. QED
    BY <2>1, <2>2, <2>3
<1>2. ASSUME NEW k \in I, NEW l \in I, k # l PROVE Q[k] \cap Q[l] = {}
  <2>1. \A m, n \in I : m # n => P[m] \cap P[n] = {}
    BY DEF Shared
  <2>2. \A m \in I : \/ m = i /\ Q[m] = P[m] \ M
                     \/ m = j /\ Q[m] = P[m] \cup M
                     \/ m # i /\ m # j /\ Q[m] = P[m]
    BY DEF Moves
  <2>3. M \subseteq P[i]
    BY DEF Moves
  <2>4. QED
    BY <1>2, <2>1, <2>2, <2>3
<1>3. QED
  BY <1>1, <1>2 DEF Shared

Rows == 1..9

\* The nine places by their number.
LEMMA PlacesRead ==
  /\ Len(Places) = 9
  /\ Places[1] = HeldIds /\ Places[2] = dropped /\ Places[3] = QueuedIds
  /\ Places[4] = absorbed /\ Places[5] = Elements(batch)
  /\ Places[6] = cur.events /\ Places[7] = RetryIds
  /\ Places[8] = delivered /\ Places[9] = lost
  BY DEF Places

\* The same after a step.
LEMMA PlacesReadNext ==
  /\ Places'[1] = HeldIds' /\ Places'[2] = dropped' /\ Places'[3] = QueuedIds'
  /\ Places'[4] = absorbed' /\ Places'[5] = Elements(batch')
  /\ Places'[6] = cur'.events /\ Places'[7] = RetryIds'
  /\ Places'[8] = delivered' /\ Places'[9] = lost'
  BY DEF Places

\* The property of the runs says that the places share out the events.
LEMMA AccountedIsShared ==
  EveryEventAccounted <=> Shared(Places, Rows, 1..calls)
<1> DEFINE P == Places
<1>1. Len(P) = 9
  BY PlacesRead
<1>2. UNION Elements(P) = 1..calls
        <=> \A e : e \in 1..calls <=> \E i \in Rows : e \in P[i]
  <2> HIDE DEF P
  <2>1. \A e : e \in UNION Elements(P) <=> \E i \in Rows : e \in P[i]
    BY <1>1 DEF Elements, Rows
  <2>2. QED
    BY <2>1
<1> HIDE DEF P
<1>3. QED
  BY <1>1, <1>2 DEF EveryEventAccounted, Shared, Rows, P

-----------------------------------------------------------------------------
(* How the sequences of the client show as sets                            *)

\* Appending adds one element.
LEMMA ElementsAppend ==
  ASSUME NEW S, NEW s \in Seq(S), NEW e \in S
  PROVE  Elements(Append(s, e)) = Elements(s) \cup {e}
<1>1. /\ Len(s) \in Nat
      /\ Len(Append(s, e)) = Len(s) + 1
      /\ \A i \in 1..Len(s) : Append(s, e)[i] = s[i]
      /\ Append(s, e)[Len(s) + 1] = e
  BY AppendProperties, LenProperties
<1>2. \A i \in 1..(Len(s) + 1) : i \in 1..Len(s) \/ i = Len(s) + 1
  BY <1>1
<1>3. \A i \in 1..Len(s) : i \in 1..(Len(s) + 1)
  BY <1>1
<1>4. Len(s) + 1 \in 1..(Len(s) + 1)
  BY <1>1
<1>5. Elements(Append(s, e)) = {Append(s, e)[i] : i \in 1..(Len(s) + 1)}
  BY <1>1 DEF Elements
<1>6. QED
  BY <1>1, <1>2, <1>3, <1>4, <1>5 DEF Elements

\* The head and the tail of a queue hold what the queue held.
LEMMA ElementsTail ==
  ASSUME NEW S, NEW s \in Seq(S), s # <<>>
  PROVE  /\ Head(s) = s[1] /\ 1 \in 1..Len(s)
         /\ Elements(Tail(s)) = {s[i] : i \in 2..Len(s)}
         /\ Elements(s) = {Head(s)} \cup Elements(Tail(s))
<1>1. /\ Len(s) \in Nat \ {0}
      /\ Len(Tail(s)) = Len(s) - 1
      /\ \A i \in 1..(Len(s) - 1) : Tail(s)[i] = s[i + 1]
  BY EmptySeq, HeadTailProperties
<1>2. Head(s) = s[1]
  OBVIOUS
<1>3. ASSUME NEW e PROVE e \in Elements(Tail(s)) <=> \E i \in 2..Len(s) : e = s[i]
  <2>1. ASSUME NEW i \in 1..(Len(s) - 1), e = Tail(s)[i]
        PROVE  \E k \in 2..Len(s) : e = s[k]
    <3>1. i + 1 \in 2..Len(s) /\ e = s[i + 1]
      BY <1>1, <2>1
    <3>2. QED
      BY <3>1
  <2>2. ASSUME NEW k \in 2..Len(s), e = s[k]
        PROVE  \E i \in 1..(Len(s) - 1) : e = Tail(s)[i]
    <3>1. k - 1 \in 1..(Len(s) - 1) /\ s[(k - 1) + 1] = s[k]
      BY <1>1
    <3>2. QED
      BY <1>1, <2>2, <3>1
  <2>3. e \in Elements(Tail(s)) <=> \E i \in 1..(Len(s) - 1) : e = Tail(s)[i]
    BY <1>1 DEF Elements
  <2>4. QED
    BY <2>1, <2>2, <2>3
<1>4. \A i \in 1..Len(s) : i = 1 \/ i \in 2..Len(s)
  BY <1>1
<1>5. \A i \in 2..Len(s) : i \in 1..Len(s)
  BY <1>1
<1>6. Elements(Tail(s)) = {s[i] : i \in 2..Len(s)}
  BY <1>3
<1>7. Elements(s) = {Head(s)} \cup {s[i] : i \in 2..Len(s)}
  BY <1>1, <1>2, <1>4, <1>5 DEF Elements
<1>8. QED
  BY <1>1, <1>2, <1>6, <1>7

\* Taking the j-th item out of a sequence leaves the items at other places.
LEMMA ElementsWithout ==
  ASSUME NEW S, NEW s \in Seq(S), NEW j \in 1..Len(s)
  PROVE  \A e : e \in Elements(Without(s, j))
                  <=> \E i \in 1..Len(s) : i # j /\ e = s[i]
<1> SUFFICES ASSUME NEW e
             PROVE  e \in Elements(Without(s, j))
                      <=> \E i \in 1..Len(s) : i # j /\ e = s[i]
  OBVIOUS
<1> DEFINE w == Without(s, j)
<1>1. /\ Len(s) \in Nat
      /\ Len(w) = Len(s) - 1
      /\ \A k \in 1..(Len(s) - 1) : w[k] = IF k < j THEN s[k] ELSE s[k + 1]
  BY WithoutType, LenProperties
<1>2. e \in Elements(w) <=> \E k \in 1..(Len(s) - 1) : e = w[k]
  <2> HIDE DEF w
  <2>1. QED
    BY <1>1 DEF Elements
<1>3. ASSUME NEW k \in 1..(Len(s) - 1), e = w[k]
      PROVE  \E i \in 1..Len(s) : i # j /\ e = s[i]
  <2> HIDE DEF w
  <2>1. CASE k < j
    <3>1. k \in 1..Len(s) /\ k # j /\ e = s[k]
      BY <1>1, <1>3, <2>1
    <3>2. QED
      BY <3>1
  <2>2. CASE ~(k < j)
    <3>1. k + 1 \in 1..Len(s) /\ k + 1 # j /\ e = s[k + 1]
      BY <1>1, <1>3, <2>2
    <3>2. QED
      BY <3>1
  <2>3. QED
    BY <2>1, <2>2
<1>4. ASSUME NEW i \in 1..Len(s), i # j, e = s[i]
      PROVE  \E k \in 1..(Len(s) - 1) : e = w[k]
  <2> HIDE DEF w
  <2>1. CASE i < j
    <3>1. i \in 1..(Len(s) - 1) /\ e = w[i]
      BY <1>1, <1>4, <2>1
    <3>2. QED
      BY <3>1
  <2>2. CASE ~(i < j)
    <3>1. /\ i - 1 \in 1..(Len(s) - 1) /\ (i - 1) + 1 = i
          /\ ~(i - 1 < j)
      BY <1>1, <1>4, <2>2
    <3>2. e = w[i - 1]
      BY <1>1, <1>4, <3>1
    <3>3. QED
      BY <3>1, <3>2
  <2>3. QED
    BY <2>1, <2>2
<1>5. QED
  BY <1>2, <1>3, <1>4

-----------------------------------------------------------------------------
(* Every event in exactly one place                                        *)

\* Ids in the queue and the batches that wait for a retry do not overlap, and
\* sendPayload leaves nothing behind.
Distinct ==
  /\ \A i, j \in 1..Len(queue) : queue[i].id = queue[j].id => i = j
  /\ \A i, j \in 1..Len(retryQueue) :
       i # j => retryQueue[i].events \cap retryQueue[j].events = {}
  /\ ~Active => cur = NoPayload

AccountInv == EveryEventAccounted /\ Distinct

LEMMA AccountedIsSharedNext ==
  (EveryEventAccounted <=> Shared(Places, Rows, 1..calls))'
  BY AccountedIsShared, PTL

\* A step that moves events from one place to another.
LEMMA Relocate ==
  ASSUME EveryEventAccounted, UNCHANGED calls, NEW i \in Rows, NEW j \in Rows,
         i # j, NEW M, Moves(Places, Places', Rows, i, j, M)
  PROVE  EveryEventAccounted'
  BY AccountedIsShared, AccountedIsSharedNext, MoveShares

\* A step that moves events on through a place, to a third one.
LEMMA RelocateTwice ==
  ASSUME EveryEventAccounted, UNCHANGED calls, NEW i \in Rows, NEW j \in Rows,
         NEW k \in Rows, NEW l \in Rows, i # j, k # l, NEW M, NEW N, NEW P,
         Moves(Places, P, Rows, i, j, M), Moves(P, Places', Rows, k, l, N)
  PROVE  EveryEventAccounted'
<1>1. Shared(P, Rows, 1..calls)
  BY AccountedIsShared, MoveShares
<1>2. QED
  BY <1>1, AccountedIsSharedNext, MoveShares

\* What the places of a state say of each other.
LEMMA PlacesApart ==
  ASSUME EveryEventAccounted
  PROVE  \A i, j \in Rows : i # j => Places[i] \cap Places[j] = {}
  BY AccountedIsShared DEF Shared

\* Places that a step leaves alone.
LEMMA PlacesFrame ==
  /\ UNCHANGED held => HeldIds' = HeldIds
  /\ UNCHANGED queue => QueuedIds' = QueuedIds
  /\ UNCHANGED retryQueue => RetryIds' = RetryIds
  BY DEF HeldIds, QueuedIds, RetryIds

\* A step that touches no event.
LEMMA AccountFrame ==
  ASSUME AccountInv,
         UNCHANGED <<calls, held, dropped, queue, absorbed, batch, cur,
                     retryQueue, delivered, lost>>,
         Active => Active'
  PROVE  AccountInv'
<1>1. Places' = Places
  BY PlacesFrame DEF Places
<1>2. EveryEventAccounted'
  BY <1>1, AccountedIsShared, AccountedIsSharedNext DEF AccountInv
<1>3. QED
  BY <1>2 DEF AccountInv, Distinct

\* A call that borrows an event adds its number to the ones held.
LEMMA HeldAfterCall ==
  ASSUME TypeOK, NEW c \in Callers, NEW call \in Calls, Call(c, call)
  PROVE  HeldIds' = HeldIds \cup {calls + 1}
<1> DEFINE e == [id |-> calls + 1, typ |-> call.typ, series |-> call.series,
                 value |-> call.value]
<1>1. held[c] = NoEvent /\ held' = [held EXCEPT ![c] = e]
  BY DEF Call
<1>2. calls \in Nat /\ held \in [Callers -> Event \cup {NoEvent}]
  BY DEF TypeOK
<1>3. e.id = calls + 1 /\ e # NoEvent
  <2>1. e \in Event
    BY ClientAssumption DEF TypeOK, Call, Event, Ids
  <2>2. QED
    BY <2>1, ClientAssumption
<1> HIDE DEF e
<1>4. \A d \in Callers : held'[d] = IF d = c THEN e ELSE held[d]
  BY <1>1, <1>2
<1>5. QED
  BY <1>1, <1>2, <1>3, <1>4 DEF HeldIds

\* A goroutine lets go of its event, which no other one holds.
LEMMA HeldAfterEnqueue ==
  ASSUME TypeOK, FreshIds, NEW c \in Callers, Enqueue(c)
  PROVE  /\ held[c] \in Event /\ held[c].id \in HeldIds
         /\ HeldIds' = HeldIds \ {held[c].id}
<1>1. held[c] # NoEvent /\ held' = [held EXCEPT ![c] = NoEvent]
  BY DEF Enqueue
<1>2. held \in [Callers -> Event \cup {NoEvent}] /\ held[c] \in Event
  BY <1>1 DEF TypeOK
<1>3. \A d \in Callers : held'[d] = IF d = c THEN NoEvent ELSE held[d]
  BY <1>1, <1>2
<1>4. \A d \in Callers : held[d] # NoEvent /\ held[d].id = held[c].id => d = c
  BY <1>1 DEF FreshIds
<1>5. QED
  BY <1>1, <1>2, <1>3, <1>4 DEF HeldIds

\* A call borrows an event that was nowhere before (client.go:229-243).
LEMMA AccountCall ==
  ASSUME TypeOK, FreshIds, AccountInv, NEW c \in Callers, NEW call \in Calls,
         Call(c, call)
  PROVE  AccountInv'
<1> USE DEF shared, goroutines, worker, backoff, history
<1>1. /\ UNCHANGED <<queue, dropped, batch, cur, retryQueue, absorbed,
                     delivered, lost, pc>>
      /\ calls' = calls + 1
  BY DEF Call
<1>2. calls \in Nat
  BY DEF TypeOK
<1>4. HeldIds' = HeldIds \cup {calls + 1}
  BY HeldAfterCall
<1>5. /\ Places'[1] = Places[1] \cup {calls + 1}
      /\ \A k \in Rows \ {1} : Places'[k] = Places[k]
  BY <1>1, <1>4, PlacesRead, PlacesReadNext, PlacesFrame DEF Rows
<1>6. calls + 1 \notin 1..calls /\ 1..calls' = (1..calls) \cup {calls + 1}
  BY <1>1, <1>2
<1>7. Shared(Places, Rows, 1..calls)
  BY AccountedIsShared DEF AccountInv
<1>8. Shared(Places', Rows, 1..calls')
  <2>1. \A i \in Rows : calls + 1 \notin Places[i]
    BY <1>6, <1>7 DEF Shared
  <2>2. \A f : f \in 1..calls' <=> \E i \in Rows : f \in Places'[i]
    <3> 1 \in Rows
      BY DEF Rows
    <3>1. QED
      BY <1>5, <1>6, <1>7 DEF Shared
  <2>3. \A i, j \in Rows : i # j => Places'[i] \cap Places'[j] = {}
    BY <1>5, <1>7, <2>1 DEF Shared
  <2>4. QED
    BY <2>2, <2>3 DEF Shared
<1>9. EveryEventAccounted'
  BY <1>8, AccountedIsSharedNext
<1>10. QED
  BY <1>1, <1>9 DEF AccountInv, Distinct, Active

\* The event of a call goes to the queue or to the drop counter, and no other
\* goroutine holds it (client.go:239-260).
LEMMA AccountEnqueue ==
  ASSUME TypeOK, FreshIds, AccountInv, NEW c \in Callers, Enqueue(c)
  PROVE  AccountInv'
<1> USE DEF shared, goroutines, worker, backoff, history
<1> DEFINE id == held[c].id
<1>1. /\ UNCHANGED <<calls, batch, cur, retryQueue, absorbed, delivered, lost,
                     pc>>
  BY DEF Enqueue
<1>2. held[c] \in Event /\ queue \in Seq(Event)
  BY HeldAfterEnqueue DEF TypeOK
<1>3. HeldIds' = HeldIds \ {id} /\ {id} \subseteq HeldIds
  BY HeldAfterEnqueue
<1>4. QueuedIds \cap HeldIds = {}
  BY PlacesApart, PlacesRead DEF AccountInv, Rows
<1>5. CASE HasRoom
  <2>1. queue' = Append(queue, held[c]) /\ UNCHANGED dropped
    BY <1>5 DEF Enqueue
  <2>2. QueuedIds' = QueuedIds \cup {id}
    <3>1. Elements(queue') = Elements(queue) \cup {held[c]}
      BY <1>2, <2>1, ElementsAppend
    <3>2. QED
      BY <3>1 DEF QueuedIds
  <2>3. Moves(Places, Places', Rows, 1, 3, {id})
    <3>1. \A k \in Rows \ {1, 3} : Places'[k] = Places[k]
      BY <1>1, <2>1, PlacesRead, PlacesReadNext, PlacesFrame DEF Rows
    <3>2. QED
      BY <1>3, <2>2, <3>1, PlacesRead, PlacesReadNext DEF Moves
  <2>4. EveryEventAccounted'
    BY <1>1, <2>3, Relocate DEF AccountInv, Rows
  <2>5. \A i, j \in 1..Len(queue') : queue'[i].id = queue'[j].id => i = j
    <3>1. /\ Len(queue) \in Nat
          /\ Len(queue') = Len(queue) + 1
          /\ \A i \in 1..Len(queue) : queue'[i] = queue[i]
          /\ queue'[Len(queue) + 1] = held[c]
      BY <1>2, <2>1, AppendProperties, LenProperties
    <3>2. \A i \in 1..Len(queue) : queue[i].id # id
      BY <1>3, <1>4 DEF QueuedIds, Elements
    <3>3. \A i \in 1..Len(queue') : i \in 1..Len(queue) \/ i = Len(queue) + 1
      BY <3>1
    <3>4. QED
      BY <3>1, <3>2, <3>3 DEF AccountInv, Distinct
  <2>6. QED
    BY <1>1, <2>4, <2>5 DEF AccountInv, Distinct, Active
<1>6. CASE ~HasRoom
  <2>1. dropped' = dropped \cup {id} /\ UNCHANGED queue
    BY <1>6 DEF Enqueue
  <2>2. Moves(Places, Places', Rows, 1, 2, {id})
    <3>1. \A k \in Rows \ {1, 2} : Places'[k] = Places[k]
      BY <1>1, <2>1, PlacesRead, PlacesReadNext, PlacesFrame DEF Rows
    <3>2. QED
      BY <1>3, <2>1, <3>1, PlacesRead, PlacesReadNext DEF Moves
  <2>3. EveryEventAccounted'
    BY <1>1, <2>2, Relocate DEF AccountInv, Rows
  <2>4. QED
    BY <1>1, <2>1, <2>3 DEF AccountInv, Distinct, Active
<1>7. QED
  BY <1>5, <1>6

\* What flush does with the events it is given: nothing when there are none,
\* otherwise they are lost or become the payload (client.go:408-443).
LEMMA FlushEvents ==
  ASSUME NEW s \in Seq(Ids), NEW n, Flush(s, n), ~Active, Distinct
  PROVE  /\ cur.events = {} /\ Elements(batch') = {}
         /\ \/ /\ UNCHANGED <<cur, lost, batchSeq>> /\ pc' = n
               /\ Elements(s) = {}
            \/ /\ UNCHANGED <<cur, batchSeq>> /\ pc' = n
               /\ lost' = lost \cup Elements(s)
            \/ /\ cur'.events = Elements(s) /\ UNCHANGED lost /\ pc' = "gate"
               /\ batchSeq' = batchSeq + 1 /\ cur'.batch = batchSeq + 1
<1>1. cur.events = {}
  BY DEF Distinct, NoPayload
<1>2. \A t : t = <<>> => Elements(t) = {}
  BY DEF Elements
<1>3. batch' = <<>>
  BY DEF Flush
<1>4. Elements(batch') = {}
  BY <1>2, <1>3
<1>5. CASE s = <<>>
  BY <1>1, <1>2, <1>4, <1>5 DEF Flush
<1>6. CASE s # <<>>
  BY <1>1, <1>4, <1>6 DEF Flush
<1>7. QED
  BY <1>5, <1>6

\* The ticker and the drain flush the batch.
LEMMA AccountFlush ==
  ASSUME TypeOK, AccountInv, ~Active, NEW n \in Continuations, Flush(batch, n),
         UNCHANGED <<calls, held, dropped, queue, absorbed, retryQueue,
                     delivered>>
  PROVE  AccountInv'
<1>1. batch \in Seq(Ids)
  BY DEF TypeOK
<1>2. /\ cur.events = {} /\ Elements(batch') = {}
      /\ \/ /\ UNCHANGED <<cur, lost>> /\ pc' = n /\ Elements(batch) = {}
         \/ /\ UNCHANGED cur /\ pc' = n /\ lost' = lost \cup Elements(batch)
         \/ /\ cur'.events = Elements(batch) /\ UNCHANGED lost /\ pc' = "gate"
  BY <1>1, FlushEvents DEF AccountInv
<1>3. \A k \in Rows \ {5, 6, 9} : Places'[k] = Places[k]
  BY PlacesRead, PlacesReadNext, PlacesFrame DEF Rows
<1>4. CASE cur'.events = Elements(batch) /\ UNCHANGED lost
  <2>1. Moves(Places, Places', Rows, 5, 6, Elements(batch))
    BY <1>2, <1>3, <1>4, PlacesRead, PlacesReadNext DEF Moves
  <2>2. QED
    BY <1>2, <2>1, Relocate DEF AccountInv, Distinct, Rows, Active, Continuations
<1>5. CASE UNCHANGED cur /\ lost' = lost \cup Elements(batch)
  <2>1. Moves(Places, Places', Rows, 5, 9, Elements(batch))
    BY <1>2, <1>3, <1>5, PlacesRead, PlacesReadNext DEF Moves
  <2>2. QED
    BY <1>2, <2>1, Relocate DEF AccountInv, Distinct, Rows, Active, Continuations
<1>6. CASE UNCHANGED <<cur, lost>> /\ Elements(batch) = {}
  BY <1>2, <1>5, <1>6
<1>7. QED
  BY <1>2, <1>4, <1>5, <1>6

\* The worker takes an event from the queue, for a baseline, for the batch or
\* for a full batch that it flushes at once (client.go:342-351, 379-405).
LEMMA AccountReceive ==
  ASSUME TypeOK, AccountInv, Receive
  PROVE  AccountInv'
<1> USE DEF shared, goroutines, worker, backoff, history
<1> DEFINE id == Head(queue).id
<1> DEFINE P == [Places EXCEPT ![3] = Places[3] \ {id}, ![5] = Places[5] \cup {id}]
<1>1. /\ UNCHANGED <<calls, held, dropped, retryQueue, delivered>>
      /\ pc \in {"select", "drain"} /\ ~Active
      /\ queue # <<>> /\ queue' = Tail(queue)
  BY DEF Receive, Active
<1>2. /\ queue \in Seq(Event) /\ batch \in Seq(Ids) /\ Head(queue) \in Event
      /\ id \in Ids
  <2>1. queue \in Seq(Event) /\ batch \in Seq(Ids)
    BY DEF TypeOK
  <2>2. Head(queue) \in Event
    BY <1>1, <2>1, HeadTailProperties
  <2>3. QED
    BY <2>1, <2>2 DEF Event
<1>3. QueuedIds' = QueuedIds \ {id} /\ id \in QueuedIds
  <2>1. /\ Head(queue) = queue[1] /\ 1 \in 1..Len(queue) /\ Len(queue) \in Nat
        /\ Elements(queue') = {queue[i] : i \in 2..Len(queue)}
        /\ Elements(queue) = {Head(queue)} \cup Elements(queue')
    BY <1>1, <1>2, ElementsTail, LenProperties
  <2>2. \A i \in 2..Len(queue) : queue[i].id # id
    BY <2>1 DEF AccountInv, Distinct
  <2>3. QED
    BY <2>1, <2>2 DEF QueuedIds
<1>4. \A i, j \in 1..Len(queue') : queue'[i].id = queue'[j].id => i = j
  <2>1. /\ Len(queue) \in Nat \ {0}
        /\ Len(queue') = Len(queue) - 1
        /\ \A i \in 1..(Len(queue) - 1) : queue'[i] = queue[i + 1]
    BY <1>1, <1>2, EmptySeq, HeadTailProperties
  <2>2. \A i \in 1..(Len(queue) - 1) : i + 1 \in 1..Len(queue)
    BY <2>1
  <2>3. \A i, j \in 1..(Len(queue) - 1) : i + 1 = j + 1 => i = j
    BY <2>1
  <2>4. QED
    BY <2>1, <2>2, <2>3 DEF AccountInv, Distinct
<1>5. \A k \in Rows \ {3, 4, 5, 6, 9} : Places'[k] = Places[k]
  BY <1>1, PlacesRead, PlacesReadNext, PlacesFrame DEF Rows
<1>6. Elements(Append(batch, id)) = Elements(batch) \cup {id}
  BY <1>2, ElementsAppend
<1>7. CASE absorbed' = absorbed \cup {id} /\ UNCHANGED <<pc, batch, cur, lost>>
  <2>1. Moves(Places, Places', Rows, 3, 4, {id})
    <3>1. \A k \in Rows \ {3, 4} : Places'[k] = Places[k]
      BY <1>5, <1>7, PlacesRead, PlacesReadNext DEF Rows
    <3>2. QED
      BY <1>3, <1>7, <3>1, PlacesRead, PlacesReadNext DEF Moves
  <2>2. QED
    BY <1>1, <1>4, <1>7, <2>1, Relocate DEF AccountInv, Distinct, Rows, Active
<1>8. CASE /\ UNCHANGED <<absorbed, pc, cur, lost>>
           /\ batch' = Append(batch, id)
  <2>1. Moves(Places, Places', Rows, 3, 5, {id})
    <3>1. \A k \in Rows \ {3, 5} : Places'[k] = Places[k]
      BY <1>5, <1>8, PlacesRead, PlacesReadNext DEF Rows
    <3>2. QED
      BY <1>3, <1>6, <1>8, <3>1, PlacesRead, PlacesReadNext DEF Moves
  <2>2. QED
    BY <1>1, <1>4, <1>8, <2>1, Relocate DEF AccountInv, Distinct, Rows, Active
<1>9. CASE UNCHANGED absorbed /\ Flush(Append(batch, id), pc)
  <2> DEFINE s == Append(batch, id)
  <2>1. s \in Seq(Ids)
    BY <1>2, AppendProperties
  <2>2. /\ cur.events = {} /\ Elements(batch') = {}
        /\ \/ /\ UNCHANGED <<cur, lost>> /\ pc' = pc /\ Elements(s) = {}
           \/ /\ UNCHANGED cur /\ pc' = pc /\ lost' = lost \cup Elements(s)
           \/ /\ cur'.events = Elements(s) /\ UNCHANGED lost /\ pc' = "gate"
    BY <1>1, <1>9, <2>1, FlushEvents DEF AccountInv
  <2>3. Moves(Places, P, Rows, 3, 5, {id})
    <3>1. DOMAIN Places = Rows
      BY DEF Places, Rows
    <3>2. QED
      BY <1>3, <3>1, PlacesRead DEF Moves, Rows
  <2>4. /\ P[5] = Elements(s)
        /\ \A k \in Rows \ {5, 6, 9} : Places'[k] = P[k]
        /\ P[6] = {} /\ P[9] = lost
    <3>1. /\ P[3] = QueuedIds' /\ P[5] = Elements(s) /\ P[6] = {}
          /\ P[9] = lost
      BY <1>3, <1>6, <2>2, <2>3, PlacesRead DEF Moves, Rows
    <3>2. \A k \in Rows \ {3, 5} : P[k] = Places[k]
      BY <2>3 DEF Moves
    <3>3. Places'[4] = Places[4] /\ Places'[3] = P[3]
      BY <1>9, <3>1, PlacesRead, PlacesReadNext
    <3>4. \A k \in Rows \ {5, 6, 9} : Places'[k] = P[k]
      BY <1>5, <3>2, <3>3
    <3>5. QED
      BY <3>1, <3>4
  <2>r. 3 \in Rows /\ 5 \in Rows /\ 6 \in Rows /\ 9 \in Rows
    BY DEF Rows
  <2> HIDE DEF P, s
  <2>5. CASE cur'.events = Elements(s) /\ UNCHANGED lost
    <3>1. Moves(P, Places', Rows, 5, 6, Elements(s))
      BY <2>2, <2>4, <2>5, PlacesReadNext DEF Moves
    <3>2. EveryEventAccounted'
      BY <1>1, <2>3, <3>1, <2>r, RelocateTwice DEF AccountInv
    <3>3. QED
      BY <1>1, <1>4, <2>2, <3>2 DEF AccountInv, Distinct, Active
  <2>6. CASE UNCHANGED cur /\ lost' = lost \cup Elements(s)
    <3>1. Moves(P, Places', Rows, 5, 9, Elements(s))
      BY <2>2, <2>4, <2>6, PlacesReadNext DEF Moves
    <3>2. EveryEventAccounted'
      BY <1>1, <2>3, <3>1, <2>r, RelocateTwice DEF AccountInv
    <3>3. QED
      BY <1>1, <1>4, <2>2, <3>2 DEF AccountInv, Distinct, Active
  <2>7. CASE UNCHANGED <<cur, lost>> /\ Elements(s) = {}
    BY <2>6, <2>7
  <2>8. QED
    BY <2>2, <2>5, <2>6, <2>7
<1>10. QED
  BY <1>7, <1>8, <1>9 DEF Receive

\* A retry pass picks an item of the retry queue.
LEMMA PickIndex ==
  ASSUME TypeOK, PassPick
  PROVE  \E j \in 1..Len(retryQueue) :
           /\ retryQueue' = Without(retryQueue, j)
           /\ cur' = Resend(retryQueue[j])
<1>1. PICK j \in DueIndices : /\ retryQueue' = Without(retryQueue, j)
                              /\ cur' = Resend(retryQueue[j])
  BY DEF PassPick
<1>2. j \in 1..Len(retryQueue)
  <2>1. pass \in Pass /\ Len(retryQueue) \in Nat
    BY LenProperties DEF TypeOK
  <2>2. QED
    BY <1>1, <2>1 DEF DueIndices, Pass
<1>3. QED
  BY <1>1, <1>2

\* A batch leaves the retry queue for sendPayload (client.go:472-490).
LEMMA AccountPick ==
  ASSUME TypeOK, AccountInv, PassPick
  PROVE  AccountInv'
<1> USE DEF shared, goroutines, worker, backoff, history
<1>1. /\ UNCHANGED <<calls, held, dropped, queue, absorbed, batch, delivered,
                     lost>>
      /\ pc' = "gate" /\ ~Active
  BY DEF PassPick, Active
<1>2. PICK j \in 1..Len(retryQueue) :
        /\ retryQueue' = Without(retryQueue, j)
        /\ cur' = Resend(retryQueue[j])
  BY PickIndex
<1>3. retryQueue \in Seq(RetryBatch) /\ Len(retryQueue) \in Nat
  BY LenProperties DEF TypeOK
<1> DEFINE M == retryQueue[j].events
<1>4. cur.events = {} /\ cur'.events = M
  BY <1>1, <1>2 DEF AccountInv, Distinct, NoPayload, Resend
<1>5. RetryIds' = RetryIds \ M /\ M \subseteq RetryIds
  <2>1. \A r : r \in Elements(retryQueue')
                 <=> \E i \in 1..Len(retryQueue) : i # j /\ r = retryQueue[i]
    BY <1>2, <1>3, ElementsWithout
  <2>2. \A r : r \in Elements(retryQueue)
                 <=> \E i \in 1..Len(retryQueue) : r = retryQueue[i]
    BY DEF Elements
  <2>3. \A i \in 1..Len(retryQueue) :
          i # j => retryQueue[i].events \cap M = {}
    BY DEF AccountInv, Distinct
  <2>4. \A e : e \in RetryIds <=> \E i \in 1..Len(retryQueue) :
                                    e \in retryQueue[i].events
    BY <2>2 DEF RetryIds
  <2>5. \A e : e \in RetryIds' <=> \E i \in 1..Len(retryQueue) :
                                    i # j /\ e \in retryQueue[i].events
    BY <2>1 DEF RetryIds
  <2> HIDE DEF M
  <2>6. \A e : e \in RetryIds' <=> e \in RetryIds /\ e \notin M
    <3> SUFFICES ASSUME NEW e
                 PROVE  e \in RetryIds' <=> e \in RetryIds /\ e \notin M
      OBVIOUS
    <3>1. ASSUME e \in RetryIds' PROVE e \in RetryIds /\ e \notin M
      BY <3>1, <2>3, <2>4, <2>5
    <3>2. ASSUME e \in RetryIds, e \notin M PROVE e \in RetryIds'
      BY <3>2, <2>4, <2>5 DEF M
    <3>3. QED
      BY <3>1, <3>2
  <2>7. M \subseteq RetryIds
    BY <2>4 DEF M
  <2>8. QED
    BY <2>6, <2>7
<1>6. \A i, k \in 1..Len(retryQueue') :
        i # k => retryQueue'[i].events \cap retryQueue'[k].events = {}
  <2>1. /\ Len(retryQueue') = Len(retryQueue) - 1
        /\ \A k \in 1..(Len(retryQueue) - 1) :
             retryQueue'[k] = IF k < j THEN retryQueue[k] ELSE retryQueue[k + 1]
    BY <1>2, <1>3, WithoutType
  <2>2. ASSUME NEW i \in 1..(Len(retryQueue) - 1),
               NEW k \in 1..(Len(retryQueue) - 1), i # k
        PROVE  retryQueue'[i].events \cap retryQueue'[k].events = {}
    <3> DEFINE at(m) == IF m < j THEN m ELSE m + 1
    <3>1. /\ at(i) \in 1..Len(retryQueue) /\ at(k) \in 1..Len(retryQueue)
          /\ at(i) # at(k)
      BY <1>3, <2>2
    <3>2. retryQueue'[i] = retryQueue[at(i)] /\ retryQueue'[k] = retryQueue[at(k)]
      BY <2>1
    <3> HIDE DEF at
    <3>3. QED
      BY <3>1, <3>2 DEF AccountInv, Distinct
  <2>3. QED
    BY <2>1, <2>2
<1>7. Moves(Places, Places', Rows, 7, 6, M)
  <2>1. \A k \in Rows \ {7, 6} : Places'[k] = Places[k]
    BY <1>1, PlacesRead, PlacesReadNext, PlacesFrame DEF Rows
  <2> HIDE DEF M
  <2>2. QED
    BY <1>4, <1>5, <2>1, PlacesRead, PlacesReadNext DEF Moves
<1>8. EveryEventAccounted'
  BY <1>1, <1>7, Relocate DEF AccountInv, Rows
<1>9. QED
  BY <1>1, <1>6, <1>8 DEF AccountInv, Distinct, Active

\* sendPayload returns and the batch is delivered or given up (client.go:446,
\* 492-510).
LEMMA AccountSettled ==
  ASSUME TypeOK, AccountInv, Return,
         UNCHANGED <<calls, held, dropped, queue, absorbed, batch, retryQueue>>,
         \/ delivered' = delivered \cup cur.events /\ UNCHANGED lost
         \/ lost' = lost \cup cur.events /\ UNCHANGED delivered
  PROVE  AccountInv'
<1>1. cur'.events = {} /\ cur' = NoPayload
  BY DEF Return, NoPayload
<1>2. \A k \in Rows \ {6, 8, 9} : Places'[k] = Places[k]
  BY PlacesRead, PlacesReadNext, PlacesFrame DEF Rows
<1>3. \/ Moves(Places, Places', Rows, 6, 8, cur.events)
      \/ Moves(Places, Places', Rows, 6, 9, cur.events)
  BY <1>1, <1>2, PlacesRead, PlacesReadNext DEF Moves
<1>4. EveryEventAccounted'
  BY <1>3, Relocate DEF AccountInv, Rows
<1>5. QED
  BY <1>1, <1>4 DEF AccountInv, Distinct

\* sendPayload returns after enqueueRetryAt: the batch waits or is given up
\* (client.go:512-556, 574-582).
LEMMA AccountRetry ==
  ASSUME TypeOK, AccountInv, Return, NEW a \in Nat, NEW t \in Nat,
         enqueueRetryAt(a, t),
         UNCHANGED <<calls, held, dropped, queue, absorbed, batch, delivered>>
  PROVE  AccountInv'
<1> DEFINE r == [batch |-> cur.batch, events |-> cur.events,
                 attempts |-> a, nextAttempt |-> t]
<1>1. CASE UNCHANGED retryQueue /\ lost' = lost \cup cur.events
  BY <1>1, AccountSettled
<1>2. CASE retryQueue' = Append(retryQueue, r) /\ UNCHANGED lost
  <2>1. cur'.events = {} /\ cur' = NoPayload
    BY DEF Return, NoPayload
  <2>2. r \in RetryBatch /\ retryQueue \in Seq(RetryBatch)
    BY DEF TypeOK, Sending, RetryBatch
  <2>3. r.events = cur.events
    OBVIOUS
  <2> HIDE DEF r
  <2>4. Elements(retryQueue') = Elements(retryQueue) \cup {r}
    BY <1>2, <2>2, ElementsAppend
  <2>5. RetryIds' = RetryIds \cup cur.events
    BY <2>3, <2>4 DEF RetryIds
  <2>6. RetryIds \cap cur.events = {}
    BY PlacesApart, PlacesRead DEF AccountInv, Rows
  <2>7. \A i, k \in 1..Len(retryQueue') :
          i # k => retryQueue'[i].events \cap retryQueue'[k].events = {}
    <3>1. /\ Len(retryQueue) \in Nat
          /\ Len(retryQueue') = Len(retryQueue) + 1
          /\ \A i \in 1..Len(retryQueue) : retryQueue'[i] = retryQueue[i]
          /\ retryQueue'[Len(retryQueue) + 1] = r
      BY <1>2, <2>2, AppendProperties, LenProperties
    <3>2. \A i \in 1..Len(retryQueue) :
            retryQueue[i].events \cap cur.events = {}
      BY <2>6 DEF RetryIds, Elements
    <3>3. \A i \in 1..Len(retryQueue') :
            i \in 1..Len(retryQueue) \/ i = Len(retryQueue) + 1
      BY <3>1
    <3>4. QED
      BY <2>3, <3>1, <3>2, <3>3 DEF AccountInv, Distinct
  <2>8. Moves(Places, Places', Rows, 6, 7, cur.events)
    <3>1. \A k \in Rows \ {6, 7} : Places'[k] = Places[k]
      BY <1>2, PlacesRead, PlacesReadNext, PlacesFrame DEF Rows
    <3>2. QED
      BY <2>1, <2>5, <3>1, PlacesRead, PlacesReadNext DEF Moves
  <2>9. EveryEventAccounted'
    BY <2>8, Relocate DEF AccountInv, Rows
  <2>10. QED
    BY <2>1, <2>7, <2>9 DEF AccountInv, Distinct
<1>3. QED
  BY <1>1, <1>2 DEF enqueueRetryAt

\* What time does to the retry queue.
LEMMA ElapseItems ==
  ASSUME TypeOK, Elapse
  PROVE  /\ Len(retryQueue) \in Nat
         /\ Len(retryQueue') = Len(retryQueue)
         /\ \A i \in 1..Len(retryQueue) :
              /\ retryQueue'[i].batch = retryQueue[i].batch
              /\ retryQueue'[i].events = retryQueue[i].events
<1>1. retryQueue \in Seq(RetryBatch) /\ Len(retryQueue) \in Nat
  BY LenProperties DEF TypeOK
<1>2. retryQueue' = [i \in 1..Len(retryQueue) |->
                       [retryQueue[i] EXCEPT !.nextAttempt = Less(@)]]
  BY DEF Elapse
<1>3. Len(retryQueue') = Len(retryQueue)
  BY <1>1, <1>2
<1>4. ASSUME NEW i \in 1..Len(retryQueue)
      PROVE  /\ retryQueue'[i].batch = retryQueue[i].batch
             /\ retryQueue'[i].events = retryQueue[i].events
  <2>1. retryQueue[i] \in RetryBatch
    BY <1>1, ElementOfSeq
  <2>2. QED
    BY <1>2, <2>1 DEF RetryBatch
<1>5. QED
  BY <1>1, <1>3, <1>4

LEMMA AccountElapse ==
  ASSUME TypeOK, AccountInv, Elapse
  PROVE  AccountInv'
<1> USE DEF shared, goroutines, worker, backoff, history
<1>1. UNCHANGED <<calls, held, dropped, queue, absorbed, batch, delivered, lost,
                  cur, pc>>
  BY DEF Elapse
<1>2. /\ Len(retryQueue) \in Nat
      /\ Len(retryQueue') = Len(retryQueue)
      /\ \A i \in 1..Len(retryQueue) :
           retryQueue'[i].events = retryQueue[i].events
  BY ElapseItems
<1>3. RetryIds' = RetryIds
  <2>1. \A e : e \in RetryIds <=> \E i \in 1..Len(retryQueue) :
                                    e \in retryQueue[i].events
    BY DEF RetryIds, Elements
  <2>2. \A e : e \in RetryIds' <=> \E i \in 1..Len(retryQueue') :
                                     e \in retryQueue'[i].events
    BY DEF RetryIds, Elements
  <2>3. QED
    BY <1>2, <2>1, <2>2
<1>4. Places' = Places
  BY <1>1, <1>3, PlacesFrame DEF Places
<1>5. EveryEventAccounted'
  BY <1>1, <1>4, AccountedIsShared, AccountedIsSharedNext DEF AccountInv
<1>6. QED
  BY <1>1, <1>2, <1>5 DEF AccountInv, Distinct, Active

\* The delay of a retry is one of the table's.
LEMMA RetryOfTransient ==
  ASSUME TypeOK, RetryInv, SendTransient
  PROVE  \E d \in Nat : cur.attempt \in Nat /\ enqueueRetryAt(cur.attempt, d)
<1>1. PICK d \in RetryDelays[cur.attempt] : enqueueRetryAt(cur.attempt, d)
  BY DEF SendTransient
<1>2. cur.attempt \in 1..RetryMaxAttempts
  BY DEF SendTransient, RetryInv, Counted, Active
<1>3. d \in Nat /\ cur.attempt \in Nat
  BY <1>1, <1>2, ClientAssumption
<1>4. QED
  BY <1>1, <1>3

LEMMA AccountStep ==
  TypeOK /\ RetryInv /\ FreshIds /\ AccountInv /\ [Next]_vars => AccountInv'
<1> SUFFICES ASSUME TypeOK, RetryInv, FreshIds, AccountInv, [Next]_vars
             PROVE  AccountInv'
  OBVIOUS
<1> USE DEF shared, goroutines, worker, backoff, history
<1>1. ASSUME NEW c \in Callers, NEW call \in Calls, Call(c, call)
      PROVE  AccountInv'
  BY <1>1, AccountCall
<1>2. ASSUME NEW c \in Callers, Enqueue(c) PROVE AccountInv'
  BY <1>2, AccountEnqueue
<1>3. ASSUME NEW c \in Closers, ContextDone(c) \/ CloseEnter(c) \/ CloseReturn(c)
      PROVE  AccountInv'
  BY <1>3, AccountFrame DEF ContextDone, CloseEnter, CloseReturn, Active
<1>4. ASSUME Tick PROVE AccountInv'
  BY <1>4, AccountFlush DEF Tick, Active, Continuations
<1>5. ASSUME Receive PROVE AccountInv'
  BY <1>5, AccountReceive
<1>6. ASSUME Cancel \/ PassBegin \/ PassEnd PROVE AccountInv'
  <2>1. ~Active
    BY <1>6 DEF Cancel, PassBegin, PassEnd, Active
  <2>2. QED
    BY <1>6, <2>1, AccountFrame DEF Cancel, PassBegin, PassEnd
<1>7. ASSUME Drained PROVE AccountInv'
  BY <1>7, AccountFlush DEF Drained, Active, Continuations
<1>8. ASSUME PassPick PROVE AccountInv'
  BY <1>8, AccountPick
<1>9. ASSUME SendStopped \/ SendFatal \/ SendOK PROVE AccountInv'
  BY <1>9, AccountSettled DEF SendStopped, SendFatal, SendOK
<1>10. ASSUME Defer PROVE AccountInv'
  <2>1. LastAttempt \in Nat /\ nextSendAttempt \in Nat
    BY DEF TypeOK, LastAttempt, Sending
  <2>2. QED
    BY <1>10, <2>1, AccountRetry DEF Defer
<1>11. ASSUME Send PROVE AccountInv'
  BY <1>11, AccountFrame DEF Send, Active
<1>12. ASSUME SendTransient PROVE AccountInv'
  <2>1. PICK d \in Nat : cur.attempt \in Nat /\ enqueueRetryAt(cur.attempt, d)
    BY <1>12, RetryOfTransient
  <2>2. QED
    BY <1>12, <2>1, AccountRetry DEF SendTransient
<1>13. ASSUME Elapse PROVE AccountInv'
  BY <1>13, AccountElapse
<1>14. ASSUME UNCHANGED vars PROVE AccountInv'
  BY <1>14, AccountFrame DEF vars, Active
<1>15. QED
  BY <1>1, <1>2, <1>3, <1>4, <1>5, <1>6, <1>7, <1>8, <1>9, <1>10, <1>11,
     <1>12, <1>13, <1>14 DEF Next, Terminated

LEMMA AccountInit == Init => AccountInv
<1> SUFFICES ASSUME Init PROVE AccountInv
  OBVIOUS
<1>1. \A s : s = <<>> => Elements(s) = {}
  BY DEF Elements
<1>2. /\ HeldIds = {} /\ QueuedIds = {} /\ RetryIds = {} /\ Elements(batch) = {}
      /\ dropped = {} /\ absorbed = {} /\ delivered = {} /\ lost = {}
      /\ cur.events = {} /\ 1..calls = {}
  BY <1>1 DEF Init, HeldIds, QueuedIds, RetryIds, NoPayload
<1>3. \A i \in Rows : Places[i] = {}
  BY <1>2, PlacesRead DEF Rows
<1>4. EveryEventAccounted
  BY <1>2, <1>3, AccountedIsShared DEF Shared
<1>5. Distinct
  BY EmptySeq DEF Init, Distinct
<1>6. QED
  BY <1>4, <1>5 DEF AccountInv

-----------------------------------------------------------------------------
(* A batch id stands for one payload                                       *)

Identity(b) == [batch |-> b.batch, events |-> b.events]

\* Every payload that was sent, is being sent or waits to be sent again.
Formed ==
  wire \cup {Identity(cur)} \cup {Identity(r) : r \in Elements(retryQueue)}

\* The events that have been in a batch.
Batched == cur.events \cup RetryIds \cup delivered \cup lost

\* BatchIdentity over every payload that was formed, and why the next one is
\* new in both of its parts.
IdentityInv ==
  /\ \A p, q \in Formed :
       p.batch = q.batch \/ p.events \cap q.events # {} => p = q
  /\ \A p \in Formed : /\ p.batch \in 0..batchSeq
                       /\ p.events \subseteq Batched
                       /\ p.batch = 0 => p = Identity(NoPayload)

\* A step that forms no payload.
LEMMA IdentityFrame ==
  ASSUME IdentityInv, UNCHANGED batchSeq, Batched \subseteq Batched',
         Formed' \subseteq Formed \cup {Identity(NoPayload)}, batchSeq \in Nat
  PROVE  IdentityInv'
<1>1. Identity(NoPayload).batch = 0 /\ Identity(NoPayload).events = {}
  BY DEF Identity, NoPayload
<1>2. ASSUME NEW p \in Formed', NEW q \in Formed',
             p.batch = q.batch \/ p.events \cap q.events # {}
      PROVE  p = q
  BY <1>1, <1>2 DEF IdentityInv
<1>3. ASSUME NEW p \in Formed'
      PROVE  /\ p.batch \in 0..batchSeq'
             /\ p.events \subseteq Batched'
             /\ p.batch = 0 => p = Identity(NoPayload)
  BY <1>1 DEF IdentityInv
<1>4. QED
  BY <1>2, <1>3 DEF IdentityInv

\* buildPayload: a new id over events that were in no batch (client.go:428-439).
LEMMA IdentityFresh ==
  ASSUME IdentityInv, batchSeq \in Nat, batchSeq' = batchSeq + 1,
         Batched \subseteq Batched', NEW f, f.batch = batchSeq + 1,
         f.events \cap Batched = {}, f.events \subseteq Batched',
         Formed' \subseteq Formed \cup {f}
  PROVE  IdentityInv'
<1>1. \A p \in Formed : p.batch # f.batch /\ p.events \cap f.events = {}
  BY DEF IdentityInv
<1>2. ASSUME NEW p \in Formed', NEW q \in Formed',
             p.batch = q.batch \/ p.events \cap q.events # {}
      PROVE  p = q
  BY <1>1, <1>2 DEF IdentityInv
<1>3. ASSUME NEW p \in Formed'
      PROVE  /\ p.batch \in 0..batchSeq'
             /\ p.events \subseteq Batched'
             /\ p.batch = 0 => p = Identity(NoPayload)
  <2>1. CASE p \in Formed
    BY <2>1 DEF IdentityInv
  <2>2. CASE p = f
    BY <2>2
  <2>3. QED
    BY <2>1, <2>2
<1>4. QED
  BY <1>2, <1>3 DEF IdentityInv

\* The events that have been in a batch are the ones in no earlier place.
LEMMA BatchedAreRest ==
  EveryEventAccounted =>
    /\ Batched = {e \in 1..calls : \A i \in 1..5 : e \notin Places[i]}
    /\ Batched \cap (QueuedIds \cup Elements(batch)) = {}
<1> SUFFICES ASSUME EveryEventAccounted
             PROVE  /\ Batched = {e \in 1..calls :
                                    \A i \in 1..5 : e \notin Places[i]}
                    /\ Batched \cap (QueuedIds \cup Elements(batch)) = {}
  OBVIOUS
<1>1. \A e : e \in Batched <=> \E i \in 6..9 : e \in Places[i]
  BY PlacesRead DEF Batched
<1>2. /\ \A e : e \in 1..calls <=> \E i \in 1..9 : e \in Places[i]
      /\ \A i, j \in 1..9 : i # j => Places[i] \cap Places[j] = {}
  BY AccountedIsShared DEF Shared, Rows
<1>3. /\ \A i \in 1..9 : i \in 1..5 \/ i \in 6..9
      /\ \A i \in 1..5 : i \in 1..9
      /\ \A i \in 6..9 : i \in 1..9
      /\ \A i \in 1..5, j \in 6..9 : i # j
      /\ 3 \in 1..5 /\ 5 \in 1..5
  OBVIOUS
<1>4. \A e : e \in Batched
               <=> e \in 1..calls /\ \A i \in 1..5 : e \notin Places[i]
  BY <1>1, <1>2, <1>3
<1>5. \A e \in Batched : e \notin Places[3] /\ e \notin Places[5]
  BY <1>3, <1>4
<1>6. Batched \cap (QueuedIds \cup Elements(batch)) = {}
  BY <1>5, PlacesRead
<1>7. QED
  BY <1>4, <1>6

\* The worker's own steps after the flush keep the batched events together.
LEMMA BatchedFrame ==
  ASSUME EveryEventAccounted, EveryEventAccounted',
         UNCHANGED <<calls, held, dropped, queue, absorbed, batch>>
  PROVE  Batched' = Batched
<1>1. \A i \in 1..5 : Places'[i] = Places[i]
  BY PlacesRead, PlacesReadNext, PlacesFrame
<1>2. Batched = {e \in 1..calls : \A i \in 1..5 : e \notin Places[i]}
  BY BatchedAreRest
<1>3. (Batched = {e \in 1..calls : \A i \in 1..5 : e \notin Places[i]})'
  BY BatchedAreRest, PTL
<1>4. QED
  BY <1>1, <1>2, <1>3

\* A flush forms a payload with a new id or none at all.
LEMMA IdentityFlush ==
  ASSUME TypeOK, AccountInv, IdentityInv, ~Active, NEW s \in Seq(Ids), NEW n,
         Flush(s, n), Elements(s) \subseteq QueuedIds \cup Elements(batch),
         UNCHANGED <<retryQueue, delivered, wire>>
  PROVE  IdentityInv'
<1>1. /\ cur.events = {}
      /\ \/ UNCHANGED <<cur, lost, batchSeq>>
         \/ UNCHANGED <<cur, batchSeq>> /\ lost' = lost \cup Elements(s)
         \/ /\ cur'.events = Elements(s) /\ UNCHANGED lost
            /\ batchSeq' = batchSeq + 1 /\ cur'.batch = batchSeq + 1
  BY FlushEvents DEF AccountInv
<1>2. batchSeq \in Nat
  BY DEF TypeOK
<1>3. Batched \subseteq Batched'
  BY <1>1, PlacesFrame DEF Batched
<1>4. CASE UNCHANGED <<cur, batchSeq>>
  <2>1. Formed' \subseteq Formed
    BY <1>4 DEF Formed
  <2>2. QED
    BY <1>2, <1>3, <1>4, <2>1, IdentityFrame
<1>5. CASE /\ cur'.events = Elements(s)
           /\ batchSeq' = batchSeq + 1 /\ cur'.batch = batchSeq + 1
  <2> DEFINE f == Identity(cur')
  <2>1. f.batch = batchSeq + 1 /\ f.events = Elements(s)
    BY <1>5 DEF Identity
  <2>2. Formed' \subseteq Formed \cup {f}
    BY DEF Formed
  <2>3. f.events \cap Batched = {}
    BY <2>1, BatchedAreRest DEF AccountInv
  <2>4. f.events \subseteq Batched'
    BY <1>5, <2>1 DEF Batched
  <2> HIDE DEF f
  <2>5. QED
    BY <1>2, <1>3, <1>5, <2>1, <2>2, <2>3, <2>4, IdentityFresh
<1>6. QED
  BY <1>1, <1>4, <1>5

\* A payload enters the retry queue as it is.
LEMMA FormedRetry ==
  ASSUME TypeOK, Return, NEW a \in Nat, NEW t \in Nat, enqueueRetryAt(a, t),
         UNCHANGED wire
  PROVE  Formed' \subseteq Formed \cup {Identity(NoPayload)}
<1> DEFINE r == [batch |-> cur.batch, events |-> cur.events,
                 attempts |-> a, nextAttempt |-> t]
<1>1. r \in RetryBatch /\ retryQueue \in Seq(RetryBatch)
  BY DEF TypeOK, Sending, RetryBatch
<1>2. Identity(r) = Identity(cur)
  BY DEF Identity
<1>3. retryQueue' = retryQueue \/ retryQueue' = Append(retryQueue, r)
  BY DEF enqueueRetryAt
<1> HIDE DEF r
<1>4. Elements(retryQueue') \subseteq Elements(retryQueue) \cup {r}
  BY <1>1, <1>3, ElementsAppend
<1>5. Identity(cur') = Identity(NoPayload)
  BY DEF Return
<1>6. QED
  BY <1>2, <1>4, <1>5 DEF Formed

LEMMA IdentityStep ==
  TypeOK /\ RetryInv /\ AccountInv /\ AccountInv' /\ IdentityInv /\ [Next]_vars
    => IdentityInv'
<1> SUFFICES ASSUME TypeOK, RetryInv, AccountInv, AccountInv', IdentityInv,
                    [Next]_vars
             PROVE  IdentityInv'
  OBVIOUS
<1> USE DEF shared, goroutines, worker, backoff, history
<1>a. batchSeq \in Nat
  BY DEF TypeOK
<1>b. ASSUME UNCHANGED <<cur, retryQueue, wire, delivered, lost, batchSeq>>
      PROVE  IdentityInv'
  <2>1. Formed' = Formed /\ Batched' = Batched
    BY <1>b, PlacesFrame DEF Formed, Batched
  <2>2. QED
    BY <1>a, <1>b, <2>1, IdentityFrame
<1>c. ASSUME UNCHANGED <<calls, held, dropped, queue, absorbed, batch, batchSeq>>,
             Formed' \subseteq Formed \cup {Identity(NoPayload)}
      PROVE  IdentityInv'
  BY <1>a, <1>c, BatchedFrame, IdentityFrame DEF AccountInv
<1>1. ASSUME NEW c \in Callers,
             (\E call \in Calls : Call(c, call)) \/ Enqueue(c)
      PROVE  IdentityInv'
  BY <1>1, <1>b DEF Call, Enqueue
<1>2. ASSUME NEW c \in Closers, ContextDone(c) \/ CloseEnter(c) \/ CloseReturn(c)
      PROVE  IdentityInv'
  BY <1>2, <1>b DEF ContextDone, CloseEnter, CloseReturn
<1>3. ASSUME Tick \/ Drained PROVE IdentityInv'
  <2>1. /\ ~Active /\ batch \in Seq(Ids) /\ \E n : Flush(batch, n)
        /\ UNCHANGED <<retryQueue, delivered, wire>>
    BY <1>3 DEF Tick, Drained, Active, TypeOK
  <2>2. QED
    BY <2>1, IdentityFlush
<1>4. ASSUME Receive PROVE IdentityInv'
  <2>1. CASE UNCHANGED <<cur, lost, batchSeq>>
    BY <1>4, <1>b, <2>1 DEF Receive
  <2>2. CASE Flush(Append(batch, Head(queue).id), pc)
    <3> DEFINE id == Head(queue).id
    <3>1. queue \in Seq(Event) /\ queue # <<>> /\ batch \in Seq(Ids)
      BY <1>4 DEF TypeOK, Receive
    <3>2. Head(queue) \in Event
      BY <3>1, HeadTailProperties
    <3>3. id \in Ids
      BY <3>2 DEF Event
    <3>4. /\ Append(batch, id) \in Seq(Ids)
          /\ Elements(Append(batch, id)) = Elements(batch) \cup {id}
      BY <3>1, <3>3, AppendProperties, ElementsAppend
    <3>5. id \in QueuedIds
      BY <3>1, ElementsTail DEF QueuedIds
    <3>6. ~Active /\ UNCHANGED <<retryQueue, delivered, wire>>
      BY <1>4 DEF Receive, Active
    <3> HIDE DEF id
    <3>7. QED
      BY <2>2, <3>4, <3>5, <3>6, IdentityFlush DEF id
  <2>3. QED
    BY <1>4, <2>1, <2>2 DEF Receive
<1>5. ASSUME Cancel \/ PassBegin \/ PassEnd PROVE IdentityInv'
  BY <1>5, <1>b DEF Cancel, PassBegin, PassEnd
<1>6. ASSUME PassPick PROVE IdentityInv'
  <2>1. PICK j \in 1..Len(retryQueue) :
          /\ retryQueue' = Without(retryQueue, j)
          /\ cur' = Resend(retryQueue[j])
    BY <1>6, PickIndex
  <2>2. retryQueue \in Seq(RetryBatch)
    BY DEF TypeOK
  <2>3. Elements(retryQueue') \subseteq Elements(retryQueue)
    <3>1. \A r : r \in Elements(retryQueue')
                   => \E i \in 1..Len(retryQueue) : r = retryQueue[i]
      BY <2>1, <2>2, ElementsWithout
    <3>2. QED
      BY <3>1 DEF Elements
  <2>4. /\ retryQueue[j] \in Elements(retryQueue)
        /\ Identity(cur') = Identity(retryQueue[j])
    BY <2>1 DEF Elements, Resend, Identity
  <2>5. Formed' \subseteq Formed
    BY <1>6, <2>3, <2>4 DEF Formed, PassPick
  <2>6. QED
    BY <1>6, <1>c, <2>5 DEF PassPick
<1>7. ASSUME SendStopped \/ SendFatal \/ SendOK PROVE IdentityInv'
  <2>1. Return /\ UNCHANGED <<retryQueue, wire>>
    BY <1>7 DEF SendStopped, SendFatal, SendOK
  <2>2. Formed' \subseteq Formed \cup {Identity(NoPayload)}
    BY <2>1 DEF Formed, Return
  <2>3. QED
    BY <1>7, <1>c, <2>2 DEF SendStopped, SendFatal, SendOK
<1>8. ASSUME Defer PROVE IdentityInv'
  <2>1. LastAttempt \in Nat /\ nextSendAttempt \in Nat
    BY DEF TypeOK, LastAttempt, Sending
  <2>2. Formed' \subseteq Formed \cup {Identity(NoPayload)}
    BY <1>8, <2>1, FormedRetry DEF Defer
  <2>3. QED
    BY <1>8, <1>c, <2>2 DEF Defer
<1>9. ASSUME Send PROVE IdentityInv'
  <2>1. Formed' \subseteq Formed
    BY <1>9 DEF Send, Formed, Identity
  <2>2. QED
    BY <1>9, <1>c, <2>1 DEF Send
<1>10. ASSUME SendTransient PROVE IdentityInv'
  <2>1. PICK d \in Nat : cur.attempt \in Nat /\ enqueueRetryAt(cur.attempt, d)
    BY <1>10, RetryOfTransient
  <2>2. Formed' \subseteq Formed \cup {Identity(NoPayload)}
    BY <1>10, <2>1, FormedRetry DEF SendTransient
  <2>3. QED
    BY <1>10, <1>c, <2>2 DEF SendTransient
<1>11. ASSUME Elapse PROVE IdentityInv'
  <2>1. \A i \in 1..Len(retryQueue) :
          Identity(retryQueue'[i]) = Identity(retryQueue[i])
    BY <1>11, ElapseItems DEF Identity
  <2>2. Len(retryQueue') = Len(retryQueue) /\ UNCHANGED <<wire, cur>>
    BY <1>11, ElapseItems DEF Elapse
  <2>3. Formed' \subseteq Formed
    BY <2>1, <2>2 DEF Formed, Elements
  <2>4. QED
    BY <1>11, <1>c, <2>3 DEF Elapse
<1>12. ASSUME UNCHANGED vars PROVE IdentityInv'
  BY <1>12, <1>b DEF vars
<1>13. QED
  BY <1>1, <1>2, <1>3, <1>4, <1>5, <1>6, <1>7, <1>8, <1>9, <1>10, <1>11, <1>12
     DEF Next, Terminated

LEMMA IdentityInit == Init => IdentityInv
<1> SUFFICES ASSUME Init PROVE IdentityInv
  OBVIOUS
<1>1. Elements(retryQueue) = {}
  BY DEF Init, Elements
<1>2. Formed = {Identity(NoPayload)}
  BY <1>1 DEF Init, Formed
<1>3. QED
  BY <1>2 DEF Init, IdentityInv, Identity, NoPayload

-----------------------------------------------------------------------------
(* The client implements Delivery                                          *)

\* The batch never stands full between two steps of run, and Transport.Send is
\* never under way on a stopped client.
WorkerInv ==
  /\ Len(batch) < MaxBatchSize
  /\ pc = "transport" => ~stopSending

Inv ==
  TypeOK /\ RetryInv /\ CloseInv /\ AccountInv /\ IdentityInv /\ WorkerInv

LEMMA WorkerStepInv == TypeOK /\ WorkerInv /\ [Next]_vars => WorkerInv'
<1> SUFFICES ASSUME TypeOK, WorkerInv, [Next]_vars PROVE WorkerInv'
  OBVIOUS
<1> USE DEF shared, goroutines, worker, backoff, history
<1>a. Len(<<>>) < MaxBatchSize
  BY ClientAssumption, EmptySeq
<1>b. ASSUME NEW s, NEW n \in {"select", "drain", "tickPass", "closePass"},
             Flush(s, n)
      PROVE  WorkerInv'
  <2>1. batch' = <<>> /\ pc' # "transport"
    BY <1>b DEF Flush
  <2>2. QED
    BY <1>a, <2>1 DEF WorkerInv
<1>c. ASSUME UNCHANGED batch, pc' # "transport" PROVE WorkerInv'
  BY <1>c DEF WorkerInv
<1>d. ASSUME UNCHANGED <<batch, pc, stopSending>> PROVE WorkerInv'
  BY <1>d DEF WorkerInv
<1>1. ASSUME NEW c \in Callers,
             (\E call \in Calls : Call(c, call)) \/ Enqueue(c)
      PROVE  WorkerInv'
  BY <1>1, <1>d DEF Call, Enqueue
<1>2. ASSUME NEW c \in Closers, ContextDone(c) \/ CloseEnter(c) \/ CloseReturn(c)
      PROVE  WorkerInv'
  BY <1>2, <1>d DEF ContextDone, CloseEnter, CloseReturn
<1>3. ASSUME Tick \/ Drained PROVE WorkerInv'
  BY <1>3, <1>b DEF Tick, Drained
<1>4. ASSUME Receive PROVE WorkerInv'
  <2>1. CASE UNCHANGED <<batch, pc>>
    BY <1>4, <2>1, <1>d DEF Receive
  <2>2. CASE Flush(Append(batch, Head(queue).id), pc)
    BY <1>4, <2>2, <1>b DEF Receive
  <2>3. CASE /\ ~(Len(batch) + 1 >= MaxBatchSize)
             /\ batch' = Append(batch, Head(queue).id) /\ UNCHANGED pc
    <3>1. queue \in Seq(Event) /\ queue # <<>> /\ batch \in Seq(Ids)
      BY <1>4 DEF TypeOK, Receive
    <3>2. Head(queue) \in Event
      BY <3>1, HeadTailProperties
    <3>3. Head(queue).id \in Ids
      BY <3>2 DEF Event
    <3>4. Len(batch') = Len(batch) + 1 /\ Len(batch) \in Nat
      BY <2>3, <3>1, <3>3, AppendProperties, LenProperties
    <3>5. QED
      BY <1>4, <2>3, <3>4, ClientAssumption DEF WorkerInv, Receive
  <2>4. QED
    BY <1>4, <2>1, <2>2, <2>3 DEF Receive
<1>5. ASSUME Cancel \/ PassBegin \/ PassPick \/ PassEnd PROVE WorkerInv'
  BY <1>5, <1>c DEF Cancel, AfterCancel, PassBegin, PassPick, PassEnd, AfterPass
<1>6. ASSUME SendStopped \/ Defer \/ SendOK \/ SendTransient \/ SendFatal
      PROVE  WorkerInv'
  <2>1. UNCHANGED batch /\ Return
    BY <1>6 DEF SendStopped, Defer, SendOK, SendTransient, SendFatal
  <2>2. pc' # "transport"
    BY <2>1 DEF Return, TypeOK
  <2>3. QED
    BY <1>c, <2>1, <2>2
<1>7. ASSUME Send PROVE WorkerInv'
  BY <1>7 DEF Send, MaySend, WorkerInv
<1>8. ASSUME Elapse \/ UNCHANGED vars PROVE WorkerInv'
  BY <1>8, <1>d DEF Elapse, vars
<1>9. QED
  BY <1>1, <1>2, <1>3, <1>4, <1>5, <1>6, <1>7, <1>8 DEF Next, Terminated

\* The inductive invariant holds in every reachable state.
LEMMA FullInvariant == Spec => []Inv
<1>1. Init => Inv
  <2>1. Init => WorkerInv
    BY ClientAssumption, EmptySeq DEF Init, WorkerInv
  <2>2. QED
    BY <2>1, TypeInit, RetryInit, CloseInit, AccountInit, IdentityInit DEF Inv
<1>2. Inv /\ [Next]_vars => Inv'
  BY TypeStep, RetryStep, FreshStep, DrainStep, AccountStep, IdentityStep,
     WorkerStepInv DEF Inv, CloseInv
<1>3. QED
  BY <1>1, <1>2, PTL DEF Spec

\* The elements of the intake are those of the batch, then those of the queue.
IntakeRead ==
  /\ Intake \in Seq(Ids)
  /\ Len(Intake) = Len(batch) + Len(queue)
  /\ Len(batch) \in Nat /\ Len(queue) \in Nat
  /\ \A i \in 1..Len(Intake) :
       Intake[i] = IF i <= Len(batch) THEN batch[i] ELSE queue[i - Len(batch)].id

LEMMA IntakeType == TypeOK => IntakeRead
<1> SUFFICES ASSUME TypeOK PROVE IntakeRead
  OBVIOUS
<1> DEFINE q == IdsOf(queue)
<1>1. /\ queue \in Seq(Event) /\ batch \in Seq(Ids)
      /\ Len(queue) \in Nat /\ Len(batch) \in Nat
  BY LenProperties DEF TypeOK
<1>2. ASSUME NEW i \in 1..Len(queue) PROVE queue[i].id \in Ids
  <2>1. queue[i] \in Event
    BY <1>1, ElementOfSeq
  <2>2. QED
    BY <2>1 DEF Event
<1>3. q \in [1..Len(queue) -> Ids]
  BY <1>2 DEF IdsOf
<1>4. /\ q \in Seq(Ids) /\ Len(q) = Len(queue)
      /\ \A i \in 1..Len(queue) : q[i] = queue[i].id
  BY <1>1, <1>3, SeqOfFunction DEF IdsOf
<1>5. Intake = batch \o q
  BY DEF Intake
<1> HIDE DEF q
<1>6. /\ Intake \in Seq(Ids)
      /\ Len(Intake) = Len(batch) + Len(q)
      /\ \A i \in 1..(Len(batch) + Len(q)) :
           Intake[i] = IF i <= Len(batch) THEN batch[i] ELSE q[i - Len(batch)]
  <2>1. q \in Seq(Ids) /\ batch \in Seq(Ids)
    BY <1>1, <1>4
  <2>2. QED
    BY <1>5, <2>1, ConcatProperties
<1>7. \A i \in 1..(Len(batch) + Len(queue)) :
        i <= Len(batch) \/ i - Len(batch) \in 1..Len(queue)
  BY <1>1
<1>8. QED
  BY <1>1, <1>4, <1>6, <1>7 DEF IntakeRead

LEMMA IntakeTypeNext == (TypeOK => IntakeRead)'
  BY IntakeType, PTL

\* An accepted event goes to the end of the intake.
LEMMA IntakeAccept ==
  ASSUME TypeOK, TypeOK', NEW e \in Event, queue' = Append(queue, e),
         UNCHANGED batch
  PROVE  Intake' = Append(Intake, e.id)
<1>1. /\ Len(queue') = Len(queue) + 1
      /\ \A i \in 1..Len(queue) : queue'[i] = queue[i]
      /\ queue'[Len(queue) + 1] = e
  BY AppendProperties DEF TypeOK
<1>2. IntakeRead /\ IntakeRead' /\ e.id \in Ids
  BY IntakeType, IntakeTypeNext DEF Event
<1> DEFINE t == Append(Intake, e.id)
<1>3. /\ t \in Seq(Ids) /\ Len(t) = Len(Intake) + 1
      /\ \A i \in 1..Len(Intake) : t[i] = Intake[i]
      /\ t[Len(Intake) + 1] = e.id
  <2>1. Intake \in Seq(Ids) /\ e.id \in Ids
    BY <1>2 DEF IntakeRead
  <2>2. QED
    BY <2>1, AppendProperties DEF t
<1> HIDE DEF t
<1>4. Len(Intake') = Len(t)
  BY <1>1, <1>2, <1>3 DEF IntakeRead
<1>5. ASSUME NEW i \in 1..Len(t) PROVE Intake'[i] = t[i]
  <2>a. Intake'[i] = IF i <= Len(batch) THEN batch[i]
                                        ELSE queue'[i - Len(batch)].id
    BY <1>2, <1>4 DEF IntakeRead
  <2>1. CASE i <= Len(batch)
    <3>1. i \in 1..Len(Intake)
      BY <1>2, <1>3, <2>1 DEF IntakeRead
    <3>2. QED
      BY <1>2, <1>3, <2>a, <2>1, <3>1 DEF IntakeRead
  <2>2. CASE i > Len(batch) /\ i <= Len(Intake)
    <3>1. i - Len(batch) \in 1..Len(queue) /\ i \in 1..Len(Intake)
      BY <1>2, <2>2 DEF IntakeRead
    <3>2. QED
      BY <1>1, <1>2, <1>3, <2>a, <2>2, <3>1 DEF IntakeRead
  <2>3. CASE i = Len(Intake) + 1
    <3>1. i - Len(batch) = Len(queue) + 1
      BY <1>2, <2>3 DEF IntakeRead
    <3>2. QED
      BY <1>1, <1>2, <1>3, <2>a, <2>3, <3>1 DEF IntakeRead
  <2>4. QED
    BY <1>2, <1>3, <2>1, <2>2, <2>3 DEF IntakeRead
<1>6. QED
  BY <1>2, <1>3, <1>4, <1>5, SeqEqual DEF IntakeRead, t

\* The queue without its head.
LEMMA QueueTail ==
  ASSUME TypeOK, queue # <<>>
  PROVE  /\ Head(queue) = queue[1] /\ Head(queue) \in Event
         /\ Head(queue).id \in Ids
         /\ Len(queue) \in Nat \ {0}
         /\ Len(Tail(queue)) = Len(queue) - 1
         /\ \A i \in 1..(Len(queue) - 1) : Tail(queue)[i] = queue[i + 1]
<1>1. queue \in Seq(Event)
  BY DEF TypeOK
<1>2. /\ Head(queue) \in Event /\ Len(queue) \in Nat \ {0}
      /\ Len(Tail(queue)) = Len(queue) - 1
      /\ \A i \in 1..(Len(queue) - 1) : Tail(queue)[i] = queue[i + 1]
  BY <1>1, HeadTailProperties, EmptySeq
<1>3. Head(queue) = queue[1]
  BY <1>1
<1>4. QED
  BY <1>2, <1>3 DEF Event

\* An event that moves from the queue to the batch stays where it was.
LEMMA IntakeKept ==
  ASSUME TypeOK, TypeOK', queue # <<>>, queue' = Tail(queue),
         batch' = Append(batch, Head(queue).id)
  PROVE  Intake' = Intake
<1>1. /\ Len(queue') = Len(queue) - 1
      /\ \A i \in 1..(Len(queue) - 1) : queue'[i] = queue[i + 1]
      /\ Head(queue) = queue[1] /\ Head(queue).id \in Ids
  BY QueueTail
<1>2. IntakeRead /\ IntakeRead'
  BY IntakeType, IntakeTypeNext
<1>3. /\ Len(batch') = Len(batch) + 1
      /\ \A i \in 1..Len(batch) : batch'[i] = batch[i]
      /\ batch'[Len(batch) + 1] = queue[1].id
  BY <1>1, AppendProperties DEF TypeOK
<1>4. Len(Intake') = Len(Intake)
  BY <1>1, <1>2, <1>3 DEF IntakeRead
<1>5. ASSUME NEW i \in 1..Len(Intake) PROVE Intake'[i] = Intake[i]
  <2>a. Intake'[i] = IF i <= Len(batch') THEN batch'[i]
                                         ELSE queue'[i - Len(batch')].id
    BY <1>2, <1>4 DEF IntakeRead
  <2>b. Intake[i] = IF i <= Len(batch) THEN batch[i]
                                       ELSE queue[i - Len(batch)].id
    BY <1>2 DEF IntakeRead
  <2>c. Len(batch) \in Nat /\ i \in Nat /\ i >= 1
    BY <1>2 DEF IntakeRead
  <2>1. CASE i <= Len(batch)
    <3>1. i \in 1..Len(batch) /\ i <= Len(batch')
      BY <1>3, <2>c, <2>1
    <3>2. QED
      BY <1>3, <2>a, <2>b, <2>1, <3>1
  <2>2. CASE i = Len(batch) + 1
    <3>1. i - Len(batch) = 1
      BY <1>2, <2>2 DEF IntakeRead
    <3>2. QED
      BY <1>3, <2>a, <2>b, <2>c, <2>2, <3>1
  <2>3. CASE i > Len(batch) + 1
    <3>1. /\ i - Len(batch') \in 1..(Len(queue) - 1)
          /\ (i - Len(batch')) + 1 = i - Len(batch)
      BY <1>2, <1>3, <2>3 DEF IntakeRead
    <3>2. QED
      BY <1>1, <1>3, <2>a, <2>b, <2>c, <2>3, <3>1
  <2>4. QED
    BY <1>2, <2>1, <2>2, <2>3 DEF IntakeRead
<1>6. QED
  BY <1>2, <1>4, <1>5, SeqEqual DEF IntakeRead

LEMMA IdsOfType ==
  ASSUME NEW q \in Seq(Event)
  PROVE  /\ IdsOf(q) \in Seq(Ids) /\ Len(IdsOf(q)) = Len(q) /\ Len(q) \in Nat
         /\ \A i \in 1..Len(q) : IdsOf(q)[i] = q[i].id
<1>1. Len(q) \in Nat
  BY LenProperties
<1>2. ASSUME NEW i \in 1..Len(q) PROVE q[i].id \in Ids
  <2>1. q[i] \in Event
    BY ElementOfSeq
  <2>2. QED
    BY <2>1 DEF Event
<1>3. IdsOf(q) \in [1..Len(q) -> Ids]
  BY <1>2 DEF IdsOf
<1>4. QED
  BY <1>1, <1>3, SeqOfFunction DEF IdsOf

\* What a part of a sequence holds.
LEMMA PartOf ==
  ASSUME NEW S, NEW s \in Seq(S), NEW m \in 1..(Len(s) + 1), NEW n \in 0..Len(s)
  PROVE  /\ SubSeq(s, m, n) \in Seq(S)
         /\ Len(SubSeq(s, m, n)) = IF m <= n THEN n - m + 1 ELSE 0
         /\ \A i \in 1..(n - m + 1) : SubSeq(s, m, n)[i] = s[m + i - 1]
<1>1. Len(s) \in Nat
  BY LenProperties
<1>2. m \in Int /\ n \in Int
  BY <1>1
<1>3. \A i \in m..n : i \in 1..Len(s)
  BY <1>1
<1>4. \A i \in m..n : s[i] \in S
  BY <1>3, ElementOfSeq
<1>5. QED
  BY <1>2, <1>4, SubSeqProperties

\* The front of the intake is the batch, followed by the head of the queue.
LEMMA IntakeFront ==
  ASSUME TypeOK
  PROVE  /\ SubSeq(Intake, 1, Len(batch)) = batch
         /\ queue # <<>> => SubSeq(Intake, 1, Len(batch) + 1)
                              = Append(batch, Head(queue).id)
<1>1. IntakeRead /\ batch \in Seq(Ids)
  BY IntakeType DEF TypeOK
<1>2. SubSeq(Intake, 1, Len(batch)) = batch
  <2> DEFINE u == SubSeq(Intake, 1, Len(batch))
  <2>1. /\ Intake \in Seq(Ids) /\ 1 \in 1..(Len(Intake) + 1)
        /\ Len(batch) \in 0..Len(Intake)
    BY <1>1 DEF IntakeRead
  <2>2. /\ u \in Seq(Ids)
        /\ Len(u) = IF 1 <= Len(batch) THEN Len(batch) - 1 + 1 ELSE 0
        /\ \A i \in 1..(Len(batch) - 1 + 1) : u[i] = Intake[1 + i - 1]
    BY <2>1, PartOf
  <2> HIDE DEF u
  <2>3. Len(u) = Len(batch) /\ \A i \in 1..Len(batch) : u[i] = batch[i]
    <3>1. Len(u) = Len(batch)
      BY <1>1, <2>2 DEF IntakeRead
    <3>2. ASSUME NEW i \in 1..Len(batch) PROVE u[i] = batch[i]
      <4>1. i \in 1..(Len(batch) - 1 + 1) /\ 1 + i - 1 = i /\ i \in 1..Len(Intake)
            /\ i <= Len(batch)
        BY <1>1 DEF IntakeRead
      <4>2. QED
        BY <1>1, <2>2, <4>1 DEF IntakeRead
    <3>3. QED
      BY <3>1, <3>2
  <2>4. u = batch
    BY <1>1, <2>2, <2>3, SeqEqual
  <2>5. QED
    BY <2>4 DEF u
<1>3. ASSUME queue # <<>>
      PROVE  SubSeq(Intake, 1, Len(batch) + 1) = Append(batch, Head(queue).id)
  <2> DEFINE u == SubSeq(Intake, 1, Len(batch) + 1)
  <2> DEFINE t == Append(batch, Head(queue).id)
  <2>1. /\ Head(queue) = queue[1] /\ Head(queue).id \in Ids
        /\ Len(queue) \in Nat \ {0}
    BY <1>3, QueueTail
  <2>2. /\ t \in Seq(Ids) /\ Len(t) = Len(batch) + 1
        /\ \A i \in 1..Len(batch) : t[i] = batch[i]
        /\ t[Len(batch) + 1] = queue[1].id
    BY <1>1, <2>1, AppendProperties
  <2>3. /\ Intake \in Seq(Ids) /\ 1 \in 1..(Len(Intake) + 1)
        /\ Len(batch) + 1 \in 0..Len(Intake)
    BY <1>1, <2>1 DEF IntakeRead
  <2>4. /\ u \in Seq(Ids)
        /\ Len(u) = IF 1 <= Len(batch) + 1 THEN (Len(batch) + 1) - 1 + 1 ELSE 0
        /\ \A i \in 1..((Len(batch) + 1) - 1 + 1) : u[i] = Intake[1 + i - 1]
    BY <2>3, PartOf
  <2> HIDE DEF u, t
  <2>5. Len(u) = Len(t)
    BY <1>1, <2>2, <2>4 DEF IntakeRead
  <2>6. ASSUME NEW i \in 1..Len(t) PROVE u[i] = t[i]
    <3>1. /\ i \in 1..((Len(batch) + 1) - 1 + 1) /\ 1 + i - 1 = i
          /\ i \in 1..Len(Intake)
      BY <1>1, <2>1, <2>2 DEF IntakeRead
    <3>2. u[i] = IF i <= Len(batch) THEN batch[i] ELSE queue[i - Len(batch)].id
      BY <1>1, <2>4, <3>1 DEF IntakeRead
    <3>3. i \in 1..Len(batch) \/ (i = Len(batch) + 1 /\ i - Len(batch) = 1)
      BY <1>1, <2>2 DEF IntakeRead
    <3>4. QED
      BY <1>1, <2>2, <3>2, <3>3 DEF IntakeRead
  <2>7. u = t
    BY <2>2, <2>4, <2>5, <2>6, SeqEqual
  <2>8. QED
    BY <2>7 DEF u, t
<1>4. QED
  BY <1>2, <1>3

\* The rest of the intake is the queue.
LEMMA IntakeRest ==
  ASSUME TypeOK, NEW q \in Seq(Event), NEW k \in 0..1, k <= Len(queue),
         Len(q) = Len(queue) - k,
         \A i \in 1..Len(q) : q[i] = queue[i + k]
  PROVE  SubSeq(Intake, Len(batch) + k + 1, Len(Intake)) = IdsOf(q)
<1> DEFINE u == SubSeq(Intake, Len(batch) + k + 1, Len(Intake))
<1>1. IntakeRead
  BY IntakeType
<1>2. /\ Intake \in Seq(Ids) /\ Len(batch) + k + 1 \in 1..(Len(Intake) + 1)
      /\ Len(Intake) \in 0..Len(Intake)
  BY <1>1 DEF IntakeRead
<1>3. /\ u \in Seq(Ids)
      /\ Len(u) = IF Len(batch) + k + 1 <= Len(Intake)
                    THEN Len(Intake) - (Len(batch) + k + 1) + 1 ELSE 0
      /\ \A i \in 1..(Len(Intake) - (Len(batch) + k + 1) + 1) :
           u[i] = Intake[(Len(batch) + k + 1) + i - 1]
  BY <1>2, PartOf
<1>4. /\ IdsOf(q) \in Seq(Ids) /\ Len(IdsOf(q)) = Len(q) /\ Len(q) \in Nat
      /\ \A i \in 1..Len(q) : IdsOf(q)[i] = q[i].id
  BY IdsOfType
<1> HIDE DEF u
<1>5. Len(u) = Len(q)
  BY <1>1, <1>3, <1>4 DEF IntakeRead
<1>6. ASSUME NEW i \in 1..Len(q) PROVE u[i] = IdsOf(q)[i]
  <2>1. /\ i \in 1..(Len(Intake) - (Len(batch) + k + 1) + 1)
        /\ (Len(batch) + k + 1) + i - 1 = Len(batch) + i + k
        /\ Len(batch) + i + k \in 1..Len(Intake)
        /\ ~(Len(batch) + i + k <= Len(batch))
        /\ (Len(batch) + i + k) - Len(batch) = i + k
    <3>1. /\ Len(batch) \in Nat /\ Len(queue) \in Nat
          /\ Len(Intake) = Len(batch) + Len(queue)
          /\ i \in Nat /\ 1 <= i /\ i <= Len(queue) - k /\ k \in {0, 1}
      BY <1>1, <1>4 DEF IntakeRead
    <3>2. QED
      BY <3>1
  <2> DEFINE m == Len(batch) + i + k
  <2>2. m \in 1..Len(Intake) /\ ~(m <= Len(batch)) /\ m - Len(batch) = i + k
    BY <2>1
  <2>3. u[i] = Intake[m]
    BY <1>3, <2>1
  <2> HIDE DEF m
  <2>4. Intake[m] = queue[i + k].id
    BY <1>1, <2>2 DEF IntakeRead
  <2>5. QED
    BY <1>4, <2>3, <2>4
<1>7. u = IdsOf(q)
  BY <1>3, <1>4, <1>5, <1>6, SeqEqual
<1>8. QED
  BY <1>7 DEF u

LEMMA PromiseInit == Init => Promise!Init
<1> SUFFICES ASSUME Init PROVE Promise!Init
  OBVIOUS
<1>1. HeldIds = {}
  BY DEF Init, HeldIds
<1>2. OpenBatches = {}
  <2>1. Elements(retryQueue) = {} /\ cur.batch = 0
    BY DEF Init, Elements, NoPayload
  <2>2. QED
    BY <2>1 DEF OpenBatches
<1>3. Intake = <<>>
  <2>1. IdsOf(queue) = <<>>
    BY DEF Init, IdsOf
  <2>2. QED
    BY <2>1, ConcatEmptySeq, EmptySeq DEF Init, Intake
<1>4. QED
  BY <1>1, <1>2, <1>3 DEF Init, Promise!Init, Done

\* An open batch as Delivery sees it, and those that wait for a retry.
OpenOf(b) == [batch |-> b.batch, events |-> b.events, tries |-> sends[b.batch]]
Waiting == {OpenOf(r) : r \in Elements(retryQueue)}

\* The open batches are the waiting ones and the one sendPayload works on.
LEMMA OpenRead ==
  TypeOK /\ RetryInv /\ Distinct =>
    /\ ~Active => OpenBatches = Waiting
    /\ Active => /\ OpenBatches = Waiting \cup {OpenOf(cur)}
                 /\ OpenOf(cur) \notin Waiting
<1> SUFFICES ASSUME TypeOK, RetryInv, Distinct
             PROVE  /\ ~Active => OpenBatches = Waiting
                    /\ Active => /\ OpenBatches = Waiting \cup {OpenOf(cur)}
                                 /\ OpenOf(cur) \notin Waiting
  OBVIOUS
<1>1. CASE ~Active
  <2>1. cur.batch = 0
    BY <1>1 DEF Distinct, NoPayload
  <2>2. QED
    BY <1>1, <2>1 DEF OpenBatches, Waiting, OpenOf
<1>2. CASE Active
  <2>1. cur.batch # 0
    BY <1>2 DEF RetryInv, OneCopy, TypeOK
  <2>2. \A r \in Elements(retryQueue) : r.batch # cur.batch
    BY <1>2 DEF RetryInv, OneCopy, Elements
  <2>3. \A r \in Elements(retryQueue) : OpenOf(r) # OpenOf(cur)
    BY <2>2 DEF OpenOf
  <2>4. QED
    BY <1>2, <2>1, <2>3 DEF OpenBatches, Waiting, OpenOf
<1>3. QED
  BY <1>1, <1>2

LEMMA OpenReadNext ==
  (TypeOK /\ RetryInv /\ Distinct =>
     /\ ~Active => OpenBatches = Waiting
     /\ Active => /\ OpenBatches = Waiting \cup {OpenOf(cur)}
                  /\ OpenOf(cur) \notin Waiting)'
  BY OpenRead, PTL

\* The batches that wait stay as they are while their sends are not counted.
LEMMA WaitingFrame ==
  ASSUME UNCHANGED retryQueue,
         \A r \in Elements(retryQueue) : sends'[r.batch] = sends[r.batch]
  PROVE  Waiting' = Waiting
<1>1. \A r \in Elements(retryQueue) :
        [batch |-> r.batch, events |-> r.events, tries |-> sends'[r.batch]]
          = OpenOf(r)
  BY DEF OpenOf
<1>2. Waiting' = {[batch |-> r.batch, events |-> r.events,
                   tries |-> sends'[r.batch]] : r \in Elements(retryQueue)}
  BY DEF Waiting, OpenOf
<1>3. QED
  BY <1>1, <1>2 DEF Waiting

\* Nothing that Delivery sees changes.
LEMMA PromiseFrame ==
  ASSUME UNCHANGED <<calls, dropped, absorbed, delivered, lost, batchSeq,
                     stopSending, cancelled, early>>,
         HeldIds' = HeldIds, Intake' = Intake, OpenBatches' = OpenBatches,
         Done' = Done
  PROVE  UNCHANGED Promise!vars
  BY DEF Promise!vars

\* The intake and the open batches are not touched.
LEMMA IntakeFrame ==
  ASSUME UNCHANGED <<batch, queue>>
  PROVE  Intake' = Intake
  BY DEF Intake, IdsOf

LEMMA OpenFrame ==
  ASSUME UNCHANGED <<cur, retryQueue, sends>>
  PROVE  OpenBatches' = OpenBatches
  BY DEF OpenBatches, Elements

LEMMA PromiseCall ==
  ASSUME Inv, NEW c \in Callers, NEW call \in Calls, Call(c, call)
  PROVE  Promise!Record
<1> USE DEF shared, goroutines, worker, backoff, history
<1>1. HeldIds' = HeldIds \cup {calls + 1}
  BY HeldAfterCall DEF Inv
<1>2. Intake' = Intake /\ OpenBatches' = OpenBatches /\ Done' = Done
  BY IntakeFrame, OpenFrame DEF Call, Done
<1>3. QED
  BY <1>1, <1>2 DEF Call, Promise!Record, Promise!ends, Promise!life

LEMMA PromiseEnqueue ==
  ASSUME Inv, Inv', NEW c \in Callers, Enqueue(c)
  PROVE  Promise!Accept \/ Promise!Reject
<1> USE DEF shared, goroutines, worker, backoff, history
<1> DEFINE id == held[c].id
<1>1. held[c] \in Event /\ id \in HeldIds /\ HeldIds' = HeldIds \ {id}
  BY HeldAfterEnqueue DEF Inv, CloseInv
<1>2. OpenBatches' = OpenBatches /\ Done' = Done
  BY OpenFrame DEF Enqueue, Done
<1>3. CASE HasRoom
  <2>1. queue' = Append(queue, held[c]) /\ UNCHANGED <<batch, dropped>>
        /\ early' = IF cancelled THEN early ELSE early \cup {id}
    BY <1>3 DEF Enqueue
  <2>2. Intake' = Append(Intake, id)
    BY <1>1, <2>1, IntakeAccept DEF Inv
  <2>3. UNCHANGED <<calls, batchSeq, absorbed, delivered, lost, stopSending,
                    cancelled>>
    BY DEF Enqueue
  <2> HIDE DEF id
  <2>4. Promise!Accept
    BY <1>1, <1>2, <2>1, <2>2, <2>3 DEF Promise!Accept, Promise!ends
  <2>5. QED
    BY <2>4
<1>4. CASE ~HasRoom
  <2>1. dropped' = dropped \cup {id} /\ UNCHANGED <<queue, early, batch>>
    BY <1>4 DEF Enqueue
  <2>2. Intake' = Intake
    BY <2>1, IntakeFrame
  <2>3. UNCHANGED <<calls, batchSeq, absorbed, delivered, lost, stopSending,
                    cancelled>>
    BY DEF Enqueue
  <2> HIDE DEF id
  <2>4. Promise!Reject
    BY <1>1, <1>2, <2>1, <2>2, <2>3 DEF Promise!Reject, Promise!life
  <2>5. QED
    BY <2>4
<1>5. QED
  BY <1>3, <1>4

LEMMA PromiseCloser ==
  ASSUME Inv, NEW c \in Closers,
         ContextDone(c) \/ CloseEnter(c) \/ CloseReturn(c)
  PROVE  Promise!Close \/ UNCHANGED Promise!vars
<1> USE DEF shared, goroutines, worker, backoff, history
<1>1. /\ Intake' = Intake /\ OpenBatches' = OpenBatches /\ Done' = Done
      /\ HeldIds' = HeldIds
      /\ UNCHANGED <<calls, dropped, absorbed, delivered, lost, batchSeq,
                     stopSending, early>>
  BY IntakeFrame, OpenFrame, PlacesFrame
     DEF ContextDone, CloseEnter, CloseReturn, Done
<1>2. CASE UNCHANGED cancelled
  BY <1>1, <1>2, PromiseFrame
<1>3. CASE ~cancelled /\ cancelled'
  BY <1>1, <1>3 DEF Promise!Close, Promise!ends
<1>4. cancelled \in BOOLEAN /\ (cancelled' = cancelled \/ cancelled' = TRUE)
  BY DEF Inv, TypeOK, ContextDone, CloseEnter, CloseReturn
<1>5. QED
  BY <1>2, <1>3, <1>4

\* A flush cuts the front of the intake, or leaves it alone when there is none.
LEMMA PromiseFlush ==
  ASSUME Inv, Inv', ~Active, ~Done, NEW s \in Seq(Ids), NEW n \in Continuations,
         Flush(s, n), s = SubSeq(Intake, 1, Len(s)), Len(s) <= Len(Intake),
         Len(s) <= MaxBatchSize,
         Intake' = SubSeq(Intake, Len(s) + 1, Len(Intake)),
         UNCHANGED <<calls, held, retryQueue, dropped, absorbed, delivered,
                     stopSending, cancelled, early>>
  PROVE  Promise!Cut \/ UNCHANGED Promise!vars
<1>1. Intake \in Seq(Ids) /\ Len(Intake) \in Nat /\ Len(s) \in Nat
  BY IntakeType, LenProperties DEF Inv, IntakeRead
<1>2. HeldIds' = HeldIds /\ Done' = Done
  BY PlacesFrame DEF Done, Flush, Continuations
<1>3. OpenBatches = Waiting
  BY OpenRead DEF Inv, AccountInv
<1>4. CASE s = <<>>
  <2>1. UNCHANGED <<cur, batchSeq, lost, sends>>
    BY <1>4 DEF Flush
  <2>2. Intake' = Intake
    <3>1. Len(s) = 0
      BY <1>4
    <3>2. QED
      BY <1>1, <3>1, SubSeqFull
  <2>3. QED
    BY <1>2, <2>1, <2>2, OpenFrame, PromiseFrame
<1>5. CASE s # <<>>
  <2>1. Len(s) \in 1..Len(Intake)
    BY <1>1, <1>5, EmptySeq
  <2>2. Promise!Elements(SubSeq(Intake, 1, Len(s))) = Elements(s)
    BY DEF Promise!Elements, Elements
  <2>3. CASE stopSending
    <3>1. /\ UNCHANGED <<cur, batchSeq, sends>>
          /\ lost' = lost \cup Elements(s)
      BY <1>5, <2>3 DEF Flush
    <3>2. OpenBatches' = OpenBatches
      BY <3>1, OpenFrame
    <3>3. Promise!Cut
      BY <1>2, <2>1, <2>2, <2>3, <3>1, <3>2 DEF Promise!Cut, Promise!life
    <3>4. QED
      BY <3>3
  <2>4. CASE ~stopSending
    <3> DEFINE f == [batch |-> batchSeq + 1, events |-> Elements(s), tries |-> 0]
    <3>1. /\ pc' = "gate" /\ batchSeq' = batchSeq + 1 /\ UNCHANGED lost
          /\ sends' = Append(sends, 0)
          /\ cur' = [batch |-> batchSeq + 1, events |-> Elements(s),
                     attempt |-> 1, fromRetry |-> FALSE]
      BY <1>5, <2>4 DEF Flush
    <3>2. /\ sends \in Seq(Nat) /\ Len(sends) = batchSeq
          /\ sends'[batchSeq + 1] = 0
          /\ \A b \in 1..batchSeq : sends'[b] = sends[b]
      BY <3>1, AppendProperties DEF Inv, TypeOK, RetryInv, OneCopy
    <3>3. \A r \in Elements(retryQueue) : r.batch \in 1..batchSeq
      BY DEF Inv, RetryInv, OneCopy, Elements
    <3>4. Waiting' = Waiting
      BY <3>2, <3>3, WaitingFrame
    <3>5. OpenBatches' = Waiting' \cup {OpenOf(cur)'}
      BY <3>1, OpenReadNext DEF Inv, AccountInv, Active
    <3>6. OpenOf(cur)' = f
      BY <3>1, <3>2 DEF OpenOf
    <3> HIDE DEF f
    <3>7. OpenBatches' = OpenBatches \cup {f}
      BY <1>3, <3>4, <3>5, <3>6
    <3>8. Promise!Cut
      BY <1>2, <2>1, <2>2, <2>4, <3>1, <3>7 DEF Promise!Cut, Promise!life, f
    <3>9. QED
      BY <3>8
  <2>5. QED
    BY <2>3, <2>4
<1>6. QED
  BY <1>4, <1>5

\* With no batch collected the intake is the queue.
LEMMA IntakeEmptied ==
  ASSUME TypeOK', batch' = <<>>
  PROVE  Intake' = IdsOf(queue')
<1>1. queue' \in Seq(Event)
  BY DEF TypeOK
<1>2. IdsOf(queue') \in Seq(Ids)
  BY <1>1, IdsOfType
<1>3. Intake' = <<>> \o IdsOf(queue')
  BY DEF Intake, IdsOf
<1>4. QED
  BY <1>2, <1>3, ConcatEmptySeq

LEMMA PromiseTick ==
  ASSUME Inv, Inv', Tick \/ Drained
  PROVE  Promise!Cut \/ UNCHANGED Promise!vars
<1> USE DEF shared, goroutines, worker, backoff, history
<1>1. PICK n \in {"tickPass", "closePass"} : Flush(batch, n)
  BY DEF Tick, Drained
<1>2. /\ ~Active /\ ~Done
      /\ UNCHANGED <<calls, held, queue, retryQueue, dropped, absorbed,
                     delivered, stopSending, cancelled, early>>
  BY DEF Tick, Drained, Active, Done
<1>3. TypeOK /\ TypeOK' /\ batch \in Seq(Ids) /\ queue \in Seq(Event)
  BY DEF Inv, TypeOK
<1>4. IntakeRead
  BY <1>3, IntakeType
<1>5. SubSeq(Intake, 1, Len(batch)) = batch
  BY <1>3, IntakeFront
<1>6. Intake' = SubSeq(Intake, Len(batch) + 1, Len(Intake))
  <2>1. Intake' = IdsOf(queue)
    BY <1>1, <1>2, <1>3, IntakeEmptied DEF Flush
  <2>2. \A i \in 1..Len(queue) : queue[i] = queue[i + 0]
    OBVIOUS
  <2>3. Len(queue) \in Nat /\ Len(queue) = Len(queue) - 0 /\ 0 <= Len(queue)
        /\ Len(batch) + 0 + 1 = Len(batch) + 1 /\ 0 \in 0..1
    BY <1>4 DEF IntakeRead
  <2>4. SubSeq(Intake, Len(batch) + 0 + 1, Len(Intake)) = IdsOf(queue)
    BY <1>3, <2>2, <2>3, IntakeRest
  <2>5. QED
    BY <2>1, <2>3, <2>4
<1>7. Len(batch) <= Len(Intake) /\ Len(batch) <= MaxBatchSize
  BY <1>4, ClientAssumption DEF Inv, WorkerInv, IntakeRead
<1>8. QED
  BY <1>1, <1>2, <1>3, <1>5, <1>6, <1>7, PromiseFlush DEF Continuations

LEMMA PromiseReceive ==
  ASSUME Inv, Inv', Receive
  PROVE  Promise!Absorb \/ Promise!Cut \/ UNCHANGED Promise!vars
<1> USE DEF shared, goroutines, worker, backoff, history
<1> DEFINE id == Head(queue).id
<1>1. /\ ~Active /\ ~Done /\ pc \in Continuations
      /\ queue # <<>> /\ queue' = Tail(queue)
      /\ UNCHANGED <<calls, held, retryQueue, dropped, delivered, stopSending,
                     cancelled, early>>
  BY DEF Receive, Active, Done, Continuations
<1>2. /\ TypeOK /\ TypeOK' /\ batch \in Seq(Ids) /\ queue \in Seq(Event)
      /\ queue' \in Seq(Event)
  BY DEF Inv, TypeOK
<1>3. IntakeRead
  BY <1>2, IntakeType
<1>4. /\ Head(queue) = queue[1] /\ id \in Ids
      /\ Len(queue) \in Nat \ {0}
      /\ Len(queue') = Len(queue) - 1
      /\ \A i \in 1..Len(queue') : queue'[i] = queue[i + 1]
  BY <1>1, <1>2, QueueTail
<1>5. /\ SubSeq(Intake, 1, Len(batch)) = batch
      /\ SubSeq(Intake, 1, Len(batch) + 1) = Append(batch, id)
  BY <1>1, <1>2, IntakeFront
<1>6. SubSeq(Intake, Len(batch) + 1 + 1, Len(Intake)) = IdsOf(queue')
  <2>1. 1 \in 0..1 /\ 1 <= Len(queue)
    BY <1>4
  <2>2. QED
    BY <1>2, <1>4, <2>1, IntakeRest
<1>7. HeldIds' = HeldIds
  BY <1>1, PlacesFrame
<1>8. CASE absorbed' = absorbed \cup {id}
           /\ UNCHANGED <<pc, batch, cur, batchSeq, lost, sends>>
  <2> DEFINE k == Len(batch) + 1
  <2>1. k \in 1..Len(Intake) /\ k - 1 = Len(batch) /\ Len(batch) \in Nat
    BY <1>3, <1>4 DEF IntakeRead
  <2>2. Intake[k] = id
    BY <1>3, <1>4, <2>1 DEF IntakeRead
  <2>3. Intake' = Promise!Skip(Intake, k)
    <3>1. Intake' = batch \o IdsOf(queue')
      BY <1>8 DEF Intake, IdsOf
    <3>2. QED
      BY <1>5, <1>6, <2>1, <3>1 DEF Promise!Skip
  <2>4. OpenBatches' = OpenBatches /\ Done' = Done
    BY <1>1, <1>8, OpenFrame DEF Done
  <2> HIDE DEF k, id
  <2>5. Promise!Absorb
    BY <1>1, <1>7, <1>8, <2>1, <2>2, <2>3, <2>4 DEF Promise!Absorb, Promise!life
  <2>6. QED
    BY <2>5
<1>9. CASE /\ batch' = Append(batch, id)
           /\ UNCHANGED <<absorbed, pc, cur, batchSeq, lost, sends>>
  <2>1. Intake' = Intake
    BY <1>1, <1>2, <1>9, IntakeKept
  <2>2. OpenBatches' = OpenBatches /\ Done' = Done
    BY <1>1, <1>9, OpenFrame DEF Done
  <2>3. QED
    BY <1>1, <1>7, <1>9, <2>1, <2>2, PromiseFrame
<1>10. CASE /\ Flush(Append(batch, id), pc)
            /\ UNCHANGED absorbed
  <2> DEFINE s == Append(batch, id)
  <2>1. s \in Seq(Ids) /\ Len(s) = Len(batch) + 1
    BY <1>2, <1>4, AppendProperties
  <2>2. Intake' = SubSeq(Intake, Len(s) + 1, Len(Intake))
    BY <1>2, <1>6, <1>10, <2>1, IntakeEmptied DEF Flush
  <2>3. Len(s) <= Len(Intake) /\ Len(s) <= MaxBatchSize
    BY <1>3, <1>4, <2>1, ClientAssumption DEF Inv, WorkerInv, IntakeRead
  <2>4. s = SubSeq(Intake, 1, Len(s))
    BY <1>5, <2>1
  <2> HIDE DEF s
  <2>5. Flush(s, pc)
    BY <1>10 DEF s
  <2>6. QED
    BY <1>1, <1>10, <2>1, <2>2, <2>3, <2>4, <2>5, PromiseFlush
<1>11. QED
  BY <1>8, <1>9, <1>10 DEF Receive

\* The end of the last pass closes the client: nothing accepted before the
\* cancellation is left in the intake.
LEMMA PromisePass ==
  ASSUME Inv, Inv', Cancel \/ PassBegin \/ PassEnd
  PROVE  Promise!Closed \/ UNCHANGED Promise!vars
<1> USE DEF shared, goroutines, worker, backoff, history
<1>1. /\ Intake' = Intake /\ OpenBatches' = OpenBatches /\ HeldIds' = HeldIds
      /\ UNCHANGED <<calls, dropped, absorbed, delivered, lost, batchSeq,
                     stopSending, cancelled, early, batch, queue>>
      /\ ~Done
  BY IntakeFrame, OpenFrame, PlacesFrame DEF Cancel, PassBegin, PassEnd, Done
<1>2. CASE pc' # "exited"
  <2>1. Done' = Done
    BY <1>1, <1>2 DEF Done
  <2>2. QED
    BY <1>1, <2>1, PromiseFrame
<1>3. CASE pc' = "exited"
  <2>1. AfterDrain'
    BY <1>3 DEF AfterDrain
  <2>2. /\ cancelled /\ batch = <<>>
        /\ \A i \in 1..Len(queue) : queue[i].id \notin early
    BY <1>1, <2>1 DEF Inv, CloseInv, DrainInv
  <2>3. IntakeRead
    BY IntakeType DEF Inv
  <2>4. early \cap Promise!Elements(Intake) = {}
    <3>1. Len(batch) = 0
      BY <2>2
    <3>2. ASSUME NEW i \in 1..Len(Intake) PROVE Intake[i] \notin early
      <4>1. /\ Intake[i] = queue[i - Len(batch)].id
            /\ i - Len(batch) \in 1..Len(queue)
        BY <2>3, <3>1 DEF IntakeRead
      <4>2. QED
        BY <2>2, <4>1
    <3>3. QED
      BY <3>2 DEF Promise!Elements
  <2>5. ~Done /\ Done' = TRUE
    BY <1>1, <1>3 DEF Done
  <2>6. Promise!Closed
    BY <1>1, <2>2, <2>4, <2>5 DEF Promise!Closed, Promise!ends
  <2>7. QED
    BY <2>6
<1>4. QED
  BY <1>2, <1>3

\* A resend is the batch that waited.
LEMMA PromisePick ==
  ASSUME Inv, Inv', PassPick
  PROVE  UNCHANGED Promise!vars
<1> USE DEF shared, goroutines, worker, backoff, history
<1>1. /\ Intake' = Intake /\ HeldIds' = HeldIds /\ Done' = Done
      /\ UNCHANGED <<calls, dropped, absorbed, delivered, lost, batchSeq,
                     stopSending, cancelled, early, sends>>
      /\ ~Active /\ Active'
  BY IntakeFrame, PlacesFrame DEF PassPick, Done, Active
<1>2. PICK j \in 1..Len(retryQueue) :
        /\ retryQueue' = Without(retryQueue, j)
        /\ cur' = Resend(retryQueue[j])
  BY PickIndex DEF Inv
<1>3. retryQueue \in Seq(RetryBatch)
  BY DEF Inv, TypeOK
<1>4. OpenBatches = Waiting /\ OpenBatches' = Waiting' \cup {OpenOf(cur)'}
  BY <1>1, OpenRead, OpenReadNext DEF Inv, AccountInv
<1>5. /\ OpenOf(cur)' = OpenOf(retryQueue[j])
      /\ Waiting' = {OpenOf(r) : r \in Elements(retryQueue')}
  BY <1>1, <1>2 DEF OpenOf, Resend, Waiting
<1>6. \A r : r \in Elements(retryQueue')
               <=> \E i \in 1..Len(retryQueue) : i # j /\ r = retryQueue[i]
  BY <1>2, <1>3, ElementsWithout
<1>7. \A r : r \in Elements(retryQueue)
               <=> r \in Elements(retryQueue') \/ r = retryQueue[j]
  BY <1>6 DEF Elements
<1>8. Waiting = Waiting' \cup {OpenOf(cur)'}
  BY <1>5, <1>7 DEF Waiting
<1>9. OpenBatches' = OpenBatches
  BY <1>4, <1>8
<1>10. QED
  BY <1>1, <1>9, PromiseFrame

\* A send counts one try of its batch and of no other.
LEMMA PromiseSend ==
  ASSUME Inv, Inv', Send
  PROVE  Promise!Try
<1> USE DEF shared, goroutines, worker, backoff, history
<1>1. /\ Intake' = Intake /\ HeldIds' = HeldIds /\ Done' = Done /\ ~Done
      /\ UNCHANGED <<calls, dropped, absorbed, delivered, lost, batchSeq,
                     stopSending, cancelled, early, cur, retryQueue>>
      /\ Active /\ Active' /\ pc = "gate" /\ ~stopSending
  BY IntakeFrame, PlacesFrame DEF Send, MaySend, Done, Active
<1>2. /\ OpenBatches = Waiting \cup {OpenOf(cur)} /\ OpenOf(cur) \notin Waiting
      /\ OpenBatches' = Waiting' \cup {OpenOf(cur)'}
  BY <1>1, OpenRead, OpenReadNext DEF Inv, AccountInv
<1>3. /\ sends \in Seq(Nat) /\ cur.batch \in 1..Len(sends)
      /\ cur.attempt \in 1..RetryMaxAttempts
      /\ sends[cur.batch] = cur.attempt - 1
      /\ \A r \in Elements(retryQueue) :
           r.batch # cur.batch /\ r.batch \in 1..Len(sends)
  BY <1>1 DEF Inv, TypeOK, RetryInv, OneCopy, Counted, Elements
<1>4. sends[cur.batch] \in Nat /\ sends[cur.batch] < RetryMaxAttempts
  BY <1>3, ClientAssumption
<1>5. \A b \in 1..Len(sends) :
        sends'[b] = IF b = cur.batch THEN sends[cur.batch] + 1 ELSE sends[b]
  <2>1. sends' = [sends EXCEPT ![cur.batch] = sends[cur.batch] + 1]
    BY DEF Send
  <2>2. QED
    BY <1>3, <1>4, <2>1, ExceptSeq
<1>6. Waiting' = Waiting
  BY <1>1, <1>3, <1>5, WaitingFrame
<1> DEFINE b == OpenOf(cur)
<1>7. b \in OpenBatches /\ b.tries < RetryMaxAttempts
  BY <1>2, <1>4 DEF OpenOf
<1>8. OpenOf(cur)' = [b EXCEPT !.tries = @ + 1]
  BY <1>1, <1>3, <1>5 DEF OpenOf
<1>9. OpenBatches' = (OpenBatches \ {b}) \cup {[b EXCEPT !.tries = @ + 1]}
  BY <1>2, <1>6, <1>8
<1> HIDE DEF b
<1>10. QED
  BY <1>1, <1>7, <1>9 DEF Promise!Try, Promise!ends, Promise!life

\* What all returns of sendPayload have in common.
LEMMA PromiseReturn ==
  ASSUME Inv, Inv', SendStopped \/ Defer \/ SendOK \/ SendTransient \/ SendFatal
  PROVE  /\ Intake' = Intake /\ HeldIds' = HeldIds /\ Done' = Done /\ ~Done
         /\ UNCHANGED <<calls, dropped, absorbed, batchSeq, cancelled, early,
                        sends>>
         /\ OpenBatches = Waiting \cup {OpenOf(cur)}
         /\ OpenOf(cur) \notin Waiting
         /\ OpenBatches' = Waiting'
         /\ pc = "transport" => OpenOf(cur).tries > 0
<1> USE DEF shared, goroutines, worker, backoff, history
<1>1. /\ Active /\ Return
      /\ UNCHANGED <<calls, held, dropped, absorbed, batchSeq, cancelled, early,
                     queue, batch, sends>>
  BY DEF SendStopped, Defer, SendOK, SendTransient, SendFatal, Active
<1>2. ~Active' /\ Done' = Done /\ ~Done
  BY <1>1 DEF Return, Active, Done, Inv, TypeOK
<1>3. /\ OpenBatches = Waiting \cup {OpenOf(cur)}
      /\ OpenOf(cur) \notin Waiting
      /\ OpenBatches' = Waiting'
  BY <1>1, <1>2, OpenRead, OpenReadNext DEF Inv, AccountInv
<1>4. ASSUME pc = "transport" PROVE OpenOf(cur).tries > 0
  <2>1. cur.attempt \in 1..RetryMaxAttempts /\ sends[cur.batch] = cur.attempt
    BY <1>1, <1>4 DEF Inv, RetryInv, Counted
  <2>2. cur.attempt > 0
    BY <2>1, ClientAssumption
  <2>3. QED
    BY <2>1, <2>2 DEF OpenOf
<1>5. QED
  BY <1>1, <1>2, <1>3, <1>4, IntakeFrame, PlacesFrame

LEMMA PromiseSettle ==
  ASSUME Inv, Inv', SendStopped \/ SendOK \/ SendFatal
  PROVE  Promise!GiveUp \/ Promise!Deliver
<1> USE DEF shared, goroutines, worker, backoff, history
<1> DEFINE b == OpenOf(cur)
<1>1. /\ Intake' = Intake /\ HeldIds' = HeldIds /\ Done' = Done /\ ~Done
      /\ UNCHANGED <<calls, dropped, absorbed, batchSeq, cancelled, early,
                     sends>>
      /\ OpenBatches = Waiting \cup {b} /\ b \notin Waiting
      /\ OpenBatches' = Waiting'
      /\ pc = "transport" => b.tries > 0
  BY PromiseReturn
<1>2. Waiting' = Waiting
  BY <1>1, WaitingFrame DEF SendStopped, SendOK, SendFatal
<1>3. b \in OpenBatches /\ OpenBatches' = OpenBatches \ {b} /\ b.events = cur.events
  BY <1>1, <1>2 DEF OpenOf
<1> HIDE DEF b
<1>4. CASE SendOK
  <2>1. /\ pc = "transport" /\ delivered' = delivered \cup cur.events
        /\ UNCHANGED <<stopSending, lost>> /\ ~stopSending
    BY <1>4 DEF SendOK, Inv, WorkerInv
  <2>2. Promise!Deliver
    BY <1>1, <1>3, <2>1 DEF Promise!Deliver, Promise!life
  <2>3. QED
    BY <2>2
<1>5. CASE SendStopped
  <2>1. /\ lost' = lost \cup cur.events /\ UNCHANGED <<delivered, stopSending>>
    BY <1>5 DEF SendStopped
  <2>2. Promise!GiveUp
    BY <1>1, <1>3, <2>1 DEF Promise!GiveUp
  <2>3. QED
    BY <2>2
<1>6. CASE SendFatal
  <2>1. /\ lost' = lost \cup cur.events /\ UNCHANGED delivered
        /\ pc = "transport" /\ stopSending' \in {stopSending, TRUE}
    BY <1>6 DEF SendFatal
  <2>2. Promise!GiveUp
    BY <1>1, <1>3, <2>1 DEF Promise!GiveUp
  <2>3. QED
    BY <2>2
<1>7. QED
  BY <1>4, <1>5, <1>6

LEMMA PromiseRetry ==
  ASSUME Inv, Inv', Defer \/ SendTransient
  PROVE  Promise!GiveUp \/ UNCHANGED Promise!vars
<1> USE DEF shared, goroutines, worker, backoff, history
<1> DEFINE b == OpenOf(cur)
<1>1. /\ Intake' = Intake /\ HeldIds' = HeldIds /\ Done' = Done /\ ~Done
      /\ UNCHANGED <<calls, dropped, absorbed, batchSeq, cancelled, early,
                     sends>>
      /\ OpenBatches = Waiting \cup {b} /\ b \notin Waiting
      /\ OpenBatches' = Waiting'
  BY PromiseReturn
<1>2. UNCHANGED <<delivered, stopSending>>
  BY DEF Defer, SendTransient
<1>3. PICK a \in Nat, t \in Nat : enqueueRetryAt(a, t)
  <2>1. CASE Defer
    <3>1. LastAttempt \in Nat /\ nextSendAttempt \in Nat
      <4>1. cur \in Sending /\ nextSendAttempt \in Nat
        BY DEF Inv, TypeOK
      <4>2. QED
        BY <4>1 DEF LastAttempt, Sending
    <3>2. enqueueRetryAt(LastAttempt, nextSendAttempt)
      BY <2>1 DEF Defer
    <3>3. QED
      BY <3>1, <3>2
  <2>2. CASE SendTransient
    BY <2>2, RetryOfTransient DEF Inv
  <2>3. QED
    BY <2>1, <2>2
<1> DEFINE r == [batch |-> cur.batch, events |-> cur.events,
                 attempts |-> a, nextAttempt |-> t]
<1>4. CASE UNCHANGED retryQueue /\ lost' = lost \cup cur.events
  <2>1. Waiting' = Waiting
    BY <1>1, <1>4, WaitingFrame
  <2>2. /\ b \in OpenBatches /\ OpenBatches' = OpenBatches \ {b}
        /\ b.events = cur.events
    BY <1>1, <2>1 DEF OpenOf
  <2> HIDE DEF b
  <2>3. Promise!GiveUp
    BY <1>1, <1>2, <1>4, <2>2 DEF Promise!GiveUp
  <2>4. QED
    BY <2>3
<1>5. CASE retryQueue' = Append(retryQueue, r) /\ UNCHANGED lost
  <2>1. r \in RetryBatch /\ retryQueue \in Seq(RetryBatch)
    BY DEF Inv, TypeOK, Sending, RetryBatch
  <2>2. OpenOf(r) = b
    BY DEF OpenOf
  <2> HIDE DEF r, b
  <2>3. Elements(retryQueue') = Elements(retryQueue) \cup {r}
    BY <1>5, <2>1, ElementsAppend
  <2>4. Waiting' = {OpenOf(q) : q \in Elements(retryQueue')}
    BY <1>1 DEF Waiting, OpenOf
  <2>5. OpenBatches' = OpenBatches
    BY <1>1, <2>2, <2>3, <2>4 DEF Waiting
  <2>6. QED
    BY <1>1, <1>2, <1>5, <2>5, PromiseFrame
<1>6. QED
  BY <1>3, <1>4, <1>5 DEF enqueueRetryAt

LEMMA PromiseElapse ==
  ASSUME Inv, Elapse
  PROVE  UNCHANGED Promise!vars
<1> USE DEF shared, goroutines, worker, backoff, history
<1>1. /\ Intake' = Intake /\ HeldIds' = HeldIds /\ Done' = Done
      /\ UNCHANGED <<calls, dropped, absorbed, delivered, lost, batchSeq,
                     stopSending, cancelled, early, sends, cur>>
  BY IntakeFrame, PlacesFrame DEF Elapse, Done
<1>2. /\ Len(retryQueue') = Len(retryQueue)
      /\ \A i \in 1..Len(retryQueue) :
           /\ retryQueue'[i].batch = retryQueue[i].batch
           /\ retryQueue'[i].events = retryQueue[i].events
  BY ElapseItems DEF Inv
<1>3. \A i \in 1..Len(retryQueue) : OpenOf(retryQueue'[i]) = OpenOf(retryQueue[i])
  BY <1>2 DEF OpenOf
<1> DEFINE here == {OpenOf(c) : c \in {d \in {cur} : d.batch # 0}}
<1>4. /\ OpenBatches = here \cup {OpenOf(retryQueue[i]) : i \in 1..Len(retryQueue)}
      /\ OpenBatches' = here \cup {OpenOf(retryQueue'[i]) :
                                     i \in 1..Len(retryQueue')}
  BY <1>1 DEF OpenBatches, OpenOf, Elements
<1> HIDE DEF here
<1>5. OpenBatches' = OpenBatches
  BY <1>2, <1>3, <1>4
<1>6. QED
  BY <1>1, <1>5, PromiseFrame

\* Every step of the client is a step of Delivery or none at all.
LEMMA PromiseStep ==
  Inv /\ Inv' /\ [Next]_vars => [Promise!Next]_(Promise!vars)
<1> SUFFICES ASSUME Inv, Inv', [Next]_vars
             PROVE  Promise!Next \/ UNCHANGED Promise!vars
  OBVIOUS
<1>1. ASSUME UNCHANGED vars PROVE UNCHANGED Promise!vars
  BY <1>1, IntakeFrame, OpenFrame, PlacesFrame, PromiseFrame DEF vars, Done
<1>2. QED
  BY <1>1, PromiseCall, PromiseEnqueue, PromiseCloser, PromiseTick,
     PromiseReceive, PromisePass, PromisePick, PromiseSend, PromiseSettle,
     PromiseRetry, PromiseElapse
     DEF Next, Terminated, Promise!Next

-----------------------------------------------------------------------------
(* Close makes progress                                                    *)

\* A pass has a number of items to take; the last one takes them from the front,
\* and they are still the ones it found, none of them sent by it yet.
PassInv ==
  Stage = "pass" =>
    /\ pass.processed <= pass.processLimit
    /\ pass.ignoreBackoff =>
         /\ pass.i = 1
         /\ pass.processLimit - pass.processed <= Len(retryQueue)
         /\ \A k \in 1..(pass.processLimit - pass.processed) :
              retryQueue[k].batch \notin pass.sent
         /\ pc = "gate" => cur.batch \notin pass.sent

\* Outside the passes there is nothing to show.
LEMMA PassOutside ==
  ASSUME NEW n, n \notin {"pass", "gate", "transport"}, pc' = n \/ (pc' = "gate" /\ ret' = n)
  PROVE  PassInv'
<1>1. Stage' # "pass"
  BY DEF Stage
<1>2. QED
  BY <1>1 DEF PassInv

LEMMA PassFrame ==
  ASSUME PassInv, UNCHANGED <<pc, ret, pass, cur, retryQueue>>
  PROVE  PassInv'
BY DEF PassInv, Stage

LEMMA PassBeginKeeps ==
  ASSUME TypeOK, PassBegin
  PROVE  PassInv'
<1> DEFINE ignore == pc = "closePass"
           begun == [ignoreBackoff |-> ignore, i |-> 1, processed |-> 0,
                     processLimit |-> ProcessLimit, sent |-> {}]
<1>1. \/ pc' \in {"exited", "select"}
      \/ pc' = "pass" /\ pass' = begun
  BY DEF PassBegin, AfterPass
<1>2. CASE pc' \in {"exited", "select"}
  BY <1>2, PassOutside
<1>3. CASE pc' = "pass" /\ pass' = begun
  <2>1. Len(retryQueue) \in Nat /\ UNCHANGED retryQueue
    BY LenProperties DEF PassBegin, TypeOK
  <2>2. ProcessLimit \in 0..Len(retryQueue)
    BY <2>1, ClientAssumption DEF ProcessLimit
  <2>3. /\ pass'.i = 1 /\ pass'.processed = 0 /\ pass'.processLimit = ProcessLimit
        /\ pass'.sent = {}
    BY <1>3
  <2>4. QED
    BY <1>3, <2>1, <2>2, <2>3 DEF PassInv
<1>4. QED
  BY <1>1, <1>2, <1>3

\* What a turn of a pass takes and leaves, for the last pass and the others.
LEMMA PickTurn ==
  ASSUME TypeOK, PassInv, PassPick
  PROVE  /\ pc = "pass" /\ pc' = "gate" /\ ret' = "pass"
         /\ pass.processed < pass.processLimit
         /\ pass'.processed = pass.processed + 1
         /\ pass'.processLimit = pass.processLimit
         /\ pass'.ignoreBackoff = pass.ignoreBackoff
         /\ pass'.sent = pass.sent
         /\ pass.processed \in Nat /\ pass.processLimit \in Nat
         /\ pass.ignoreBackoff =>
              /\ pass'.i = 1
              /\ Len(retryQueue) \in Nat \ {0}
              /\ Len(retryQueue') = Len(retryQueue) - 1
              /\ cur'.batch = retryQueue[1].batch
              /\ \A k \in 1..(Len(retryQueue) - 1) :
                   retryQueue'[k] = retryQueue[k + 1]
<1>1. PICK j \in DueIndices :
        /\ \A k \in DueIndices : j <= k
        /\ retryQueue' = Without(retryQueue, j)
        /\ cur' = Resend(retryQueue[j])
        /\ pass' = [pass EXCEPT !.i = j, !.processed = @ + 1]
  BY DEF PassPick
<1>2. pass \in Pass /\ retryQueue \in Seq(RetryBatch) /\ Len(retryQueue) \in Nat
  BY LenProperties DEF TypeOK
<1>3. /\ pc = "pass" /\ pc' = "gate" /\ ret' = "pass"
      /\ pass.processed < pass.processLimit
  BY DEF PassPick
<1>4. /\ pass'.processed = pass.processed + 1
      /\ pass'.processLimit = pass.processLimit
      /\ pass'.ignoreBackoff = pass.ignoreBackoff
      /\ pass'.sent = pass.sent /\ pass'.i = j
      /\ pass.processed \in Nat /\ pass.processLimit \in Nat
  BY <1>1, <1>2 DEF Pass
<1>5. ASSUME pass.ignoreBackoff
      PROVE  /\ j = 1
             /\ Len(retryQueue) \in Nat \ {0}
             /\ Len(retryQueue') = Len(retryQueue) - 1
             /\ cur'.batch = retryQueue[1].batch
             /\ \A k \in 1..(Len(retryQueue) - 1) :
                  retryQueue'[k] = retryQueue[k + 1]
  <2>1. pass.i = 1
    BY <1>3, <1>5 DEF PassInv, Stage
  <2>2. DueIndices = 1..Len(retryQueue)
    BY <1>5, <2>1 DEF DueIndices
  <2>3. j = 1 /\ 1 \in 1..Len(retryQueue)
    <3>1. j \in 1..Len(retryQueue) /\ \A k \in 1..Len(retryQueue) : j <= k
      BY <1>1, <2>2, Zenon
    <3>2. 1 \in 1..Len(retryQueue)
      BY <1>2, <3>1
    <3>3. j <= 1 /\ j \in Nat \ {0}
      BY <3>1, <3>2
    <3>4. QED
      BY <3>2, <3>3
  <2>4. /\ Len(Without(retryQueue, 1)) = Len(retryQueue) - 1
        /\ \A k \in 1..(Len(retryQueue) - 1) :
             Without(retryQueue, 1)[k] =
               IF k < 1 THEN retryQueue[k] ELSE retryQueue[k + 1]
    BY <1>2, <2>3, WithoutType
  <2>5. cur'.batch = retryQueue[1].batch
    BY <1>1, <2>3 DEF Resend
  <2>6. QED
    BY <1>1, <1>2, <2>3, <2>4, <2>5
<1>6. QED
  BY <1>3, <1>4, <1>5

LEMMA PassPickKeeps ==
  ASSUME TypeOK, PassInv, PassPick
  PROVE  PassInv'
<1>1. pass'.processed <= pass'.processLimit
  BY PickTurn
<1>2. ASSUME pass'.ignoreBackoff
      PROVE  /\ pass'.i = 1
             /\ pass'.processLimit - pass'.processed <= Len(retryQueue')
             /\ \A k \in 1..(pass'.processLimit - pass'.processed) :
                  retryQueue'[k].batch \notin pass'.sent
             /\ cur'.batch \notin pass'.sent
  <2> DEFINE rest == pass.processLimit - pass.processed
  <2>1. /\ pass.ignoreBackoff /\ rest \in Nat \ {0}
        /\ pass'.processLimit - pass'.processed = rest - 1
    <3>1. pass.ignoreBackoff
      BY <1>2, PickTurn, Zenon
    <3>2. /\ pass.processed < pass.processLimit
          /\ pass'.processed = pass.processed + 1
          /\ pass'.processLimit = pass.processLimit
          /\ pass.processed \in Nat /\ pass.processLimit \in Nat
      BY PickTurn, Zenon
    <3>3. QED
      BY <3>1, <3>2
  <2>2. /\ rest <= Len(retryQueue)
        /\ \A k \in 1..rest : retryQueue[k].batch \notin pass.sent
    BY <2>1, PickTurn DEF PassInv, Stage
  <2> HIDE DEF rest
  <2>3. ASSUME NEW k \in 1..(rest - 1)
        PROVE  retryQueue'[k].batch \notin pass'.sent
    <3>1. k + 1 \in 1..rest /\ k \in 1..(Len(retryQueue) - 1)
      BY <2>1, <2>2, PickTurn
    <3>2. QED
      BY <2>1, <2>2, <3>1, PickTurn
  <2>4. cur'.batch \notin pass'.sent
    BY <2>1, <2>2, PickTurn
  <2>5. rest - 1 <= Len(retryQueue') /\ pass'.i = 1
    BY <2>1, <2>2, PickTurn
  <2>6. QED
    BY <2>1, <2>3, <2>4, <2>5
<1>3. QED
  BY <1>1, <1>2 DEF PassInv

LEMMA PassSendKeeps ==
  ASSUME TypeOK, RetryInv, PassInv, Send
  PROVE  PassInv'
<1>1. /\ pc = "gate" /\ pc' = "transport" /\ UNCHANGED <<ret, retryQueue, cur>>
  BY DEF Send
<1>2. /\ pass'.processed = pass.processed /\ pass'.i = pass.i
      /\ pass'.processLimit = pass.processLimit
      /\ pass'.ignoreBackoff = pass.ignoreBackoff
      /\ pass'.sent \subseteq pass.sent \cup {cur.batch}
      /\ pass.processed \in Nat /\ pass.processLimit \in Nat
  <2>1. pass \in Pass
    BY DEF TypeOK
  <2>2. \/ pass' = pass
        \/ pass' = [pass EXCEPT !.sent = pass.sent \cup {cur.batch}]
    BY DEF Send
  <2>3. QED
    BY <2>1, <2>2 DEF Pass
<1>3. \A k \in 1..Len(retryQueue) : retryQueue[k].batch # cur.batch
  BY <1>1 DEF RetryInv, OneCopy, Active
<1>4. Len(retryQueue) \in Nat
  BY LenProperties DEF TypeOK
<1>5. Stage' = "pass" <=> Stage = "pass"
  BY <1>1 DEF Stage
<1>6. QED
  BY <1>1, <1>2, <1>3, <1>4, <1>5 DEF PassInv

\* sendPayload returns; a batch it could not send goes to the tail.
LEMMA PassReturnKeeps ==
  ASSUME TypeOK, PassInv, pc \in {"gate", "transport"}, Return,
         UNCHANGED <<ret, pass>>,
         \/ UNCHANGED retryQueue
         \/ \E r \in RetryBatch : retryQueue' = Append(retryQueue, r)
  PROVE  PassInv'
<1>1. pc' = ret /\ Stage = ret /\ pc' # "gate"
  BY DEF Return, Stage, TypeOK
<1>2. /\ Len(retryQueue) \in Nat /\ Len(retryQueue') >= Len(retryQueue)
      /\ \A k \in 1..Len(retryQueue) : retryQueue'[k] = retryQueue[k]
  <2>1. retryQueue \in Seq(RetryBatch) /\ Len(retryQueue) \in Nat
    BY LenProperties DEF TypeOK
  <2>2. CASE UNCHANGED retryQueue
    BY <2>1, <2>2
  <2>3. ASSUME NEW r \in RetryBatch, retryQueue' = Append(retryQueue, r)
        PROVE  /\ Len(retryQueue') = Len(retryQueue) + 1
               /\ \A k \in 1..Len(retryQueue) : retryQueue'[k] = retryQueue[k]
    BY <2>1, <2>3, AppendProperties
  <2>4. QED
    BY <2>1, <2>2, <2>3
<1>3. pass.processed \in Nat /\ pass.processLimit \in Nat
  BY DEF TypeOK, Pass
<1>4. Stage' = "pass" => Stage = "pass"
  BY <1>1 DEF Stage
<1>5. QED
  BY <1>1, <1>2, <1>3, <1>4 DEF PassInv

\* What a send leaves behind.
LEMMA ReturnTail ==
  ASSUME TypeOK, RetryInv,
         SendStopped \/ Defer \/ SendOK \/ SendTransient \/ SendFatal
  PROVE  /\ pc \in {"gate", "transport"} /\ Return /\ UNCHANGED <<ret, pass, queue>>
         /\ \/ UNCHANGED retryQueue
            \/ \E r \in RetryBatch : retryQueue' = Append(retryQueue, r)
<1> USE DEF shared
<1>1. /\ pc \in {"gate", "transport"} /\ Return /\ UNCHANGED <<ret, pass, queue>>
  BY DEF SendStopped, Defer, SendOK, SendTransient, SendFatal
<1>2. ASSUME NEW a \in Nat, NEW t \in Nat, enqueueRetryAt(a, t)
      PROVE  \/ UNCHANGED retryQueue
             \/ \E r \in RetryBatch : retryQueue' = Append(retryQueue, r)
  <2> DEFINE r == [batch |-> cur.batch, events |-> cur.events,
                   attempts |-> a, nextAttempt |-> t]
  <2>1. r \in RetryBatch
    BY DEF TypeOK, Sending, RetryBatch
  <2>2. UNCHANGED retryQueue \/ retryQueue' = Append(retryQueue, r)
    BY <1>2 DEF enqueueRetryAt
  <2>3. QED
    BY <2>1, <2>2
<1>3. CASE Defer
  <2>1. LastAttempt \in Nat /\ nextSendAttempt \in Nat
    BY DEF LastAttempt, TypeOK, Sending
  <2>2. enqueueRetryAt(LastAttempt, nextSendAttempt)
    BY <1>3 DEF Defer
  <2>3. QED
    BY <1>1, <1>2, <2>1, <2>2
<1>4. CASE SendTransient
  BY <1>1, <1>2, <1>4, RetryOfTransient
<1>5. CASE SendStopped \/ SendOK \/ SendFatal
  BY <1>1, <1>5 DEF SendStopped, SendOK, SendFatal
<1>6. QED
  BY <1>3, <1>4, <1>5

LEMMA PassStep == TypeOK /\ RetryInv /\ PassInv /\ [Next]_vars => PassInv'
<1> SUFFICES ASSUME TypeOK, RetryInv, PassInv, [Next]_vars PROVE PassInv'
  OBVIOUS
<1> USE DEF worker
<1>1. ASSUME NEW c \in Callers,
             (\E call \in Calls : Call(c, call)) \/ Enqueue(c)
      PROVE  PassInv'
  BY <1>1, PassFrame DEF Call, Enqueue
<1>2. ASSUME NEW c \in Closers, ContextDone(c) \/ CloseEnter(c) \/ CloseReturn(c)
      PROVE  PassInv'
  BY <1>2, PassFrame DEF ContextDone, CloseEnter, CloseReturn
<1>3. ASSUME NEW s, NEW n \in {"select", "drain", "tickPass", "closePass"},
             Flush(s, n)
      PROVE  PassInv'
  BY <1>3, FlushTarget, PassOutside
<1>4. CASE Tick \/ Drained
  BY <1>3, <1>4 DEF Tick, Drained
<1>5. CASE Receive
  <2>1. pc \in {"select", "drain"}
    BY <1>5 DEF Receive
  <2>2. pc' = pc \/ (pc' = "gate" /\ ret' = pc)
    BY <1>5, FlushTarget DEF Receive
  <2>3. QED
    BY <2>1, <2>2, PassOutside
<1>6. CASE Cancel
  BY <1>6, PassOutside DEF Cancel, AfterCancel
<1>7. CASE PassEnd
  <2>1. pc' = "exited" \/ pc' = "select"
    BY <1>7 DEF PassEnd, AfterPass
  <2>2. QED
    BY <2>1, PassOutside
<1>8. CASE SendStopped \/ Defer \/ SendOK \/ SendTransient \/ SendFatal
  BY <1>8, ReturnTail, PassReturnKeeps
<1>9. CASE Elapse
  <2>1. UNCHANGED <<pc, ret, pass, cur>>
    BY <1>9 DEF Elapse
  <2>2. pass.processed \in Nat /\ pass.processLimit \in Nat
    BY DEF TypeOK, Pass
  <2>3. QED
    BY <1>9, <2>1, <2>2, ElapseItems DEF PassInv, Stage
<1>10. CASE UNCHANGED vars
  BY <1>10, PassFrame DEF vars
<1>11. QED
  BY <1>1, <1>2, <1>4, <1>5, <1>6, <1>7, <1>8, <1>9, <1>10, PassBeginKeeps,
     PassPickKeeps, PassSendKeeps DEF Next, Terminated

LEMMA PassInvariant == Spec => []PassInv
<1>1. Init => PassInv
  BY DEF Init, PassInv, Stage
<1>2. TypeOK /\ RetryInv /\ CloseInv /\ PassInv /\ [Next]_vars => PassInv'
  BY PassStep
<1>3. QED
  BY <1>1, <1>2, Invariant, PTL DEF Spec

\* What is ahead of a closing worker, by the stage it is at.
Ahead(n) ==
  CASE n = "drain" -> 3 * Len(queue) + 3 * RetryQueueSize + 5
    [] n = "closePass" -> 3 * RetryQueueSize + 2
    [] n = "pass" -> 3 * (pass.processLimit - pass.processed) + 1
    [] OTHER -> 0

\* The numbers it is made of.
LEMMA AheadNumbers ==
  ASSUME TypeOK, PassInv, Closing
  PROVE  /\ Len(queue) \in Nat /\ RetryQueueSize \in Nat
         /\ pass.processed \in Nat /\ pass.processLimit \in Nat
         /\ Stage = "pass" => pass.processed <= pass.processLimit
         /\ Ahead(Stage) \in Nat
<1>1. /\ Len(queue) \in Nat /\ RetryQueueSize \in Nat
      /\ pass.processed \in Nat /\ pass.processLimit \in Nat
      /\ Stage = "pass" => pass.processed <= pass.processLimit
  BY ClientAssumption, LenProperties DEF TypeOK, Pass, PassInv
<1>2. Ahead(Stage) \in Nat
  <2>1. CASE Stage = "drain"
    BY <1>1, <2>1 DEF Ahead
  <2>2. CASE Stage = "pass"
    <3>1. pass.processLimit - pass.processed \in Nat
      BY <1>1, <2>2
    <3>2. QED
      BY <2>2, <3>1 DEF Ahead
  <2>3. CASE Stage \notin {"drain", "pass"}
    BY <1>1, <2>3 DEF Ahead
  <2>4. QED
    BY <2>1, <2>2, <2>3
<1>3. QED
  BY <1>1, <1>2

\* It is a number of steps.
Measured == TypeOK /\ PassInv /\ Closing => Left \in Nat

LEMMA LeftMeasured == Measured
BY AheadNumbers DEF Measured, Left, Ahead

LEMMA LeftMeasuredNext == Measured'
BY LeftMeasured, PTL

\* The worker moves on inside a send, or returns from one.
LEMMA SendProgress ==
  ASSUME TypeOK, RetryInv, PassInv, Closing,
         SendStopped \/ Defer \/ Send \/ SendReturns
  PROVE  Closing' /\ Left' < Left
<1>1. /\ UNCHANGED <<ret, queue>>
      /\ \/ pc = "gate" /\ pc' = "transport"
         \/ pc \in {"gate", "transport"} /\ pc' = ret
  <2>1. CASE Send
    BY <2>1 DEF Send, shared
  <2>2. CASE SendStopped \/ Defer \/ SendReturns
    BY <2>2, ReturnTail DEF SendReturns, Return
  <2>3. QED
    BY <2>1, <2>2
<1>2. /\ pass'.processed = pass.processed /\ pass'.processLimit = pass.processLimit
      /\ pass'.ignoreBackoff = pass.ignoreBackoff
  <2>1. CASE Send
    <3>1. pass \in Pass
      BY DEF TypeOK
    <3>2. \/ pass' = pass
          \/ pass' = [pass EXCEPT !.sent = pass.sent \cup {cur.batch}]
      BY <2>1 DEF Send
    <3>3. QED
      BY <3>1, <3>2 DEF Pass
  <2>2. CASE SendStopped \/ Defer \/ SendReturns
    BY <2>2, ReturnTail DEF SendReturns
  <2>3. QED
    BY <2>1, <2>2
<1>3. ret \in Continuations
  BY DEF TypeOK, Continuations
<1>4. Stage = ret /\ Stage' = ret
  BY <1>1, <1>3 DEF Stage, Continuations
<1>5. Closing'
  BY <1>2, <1>4 DEF Closing
<1>6. Ahead(Stage)' = Ahead(Stage)
  BY <1>1, <1>2, <1>4 DEF Ahead
<1>7. Left' < Left
  <2>1. Left = Ahead(Stage) + (CASE pc = "gate" -> 2 [] pc = "transport" -> 1
                                 [] OTHER -> 0)
    BY DEF Left, Ahead
  <2>2. Left' = Ahead(Stage)' + (CASE pc' = "gate" -> 2 [] pc' = "transport" -> 1
                                   [] OTHER -> 0)
    BY DEF Left, Ahead
  <2>3. QED
    BY <1>1, <1>3, <1>6, <2>1, <2>2, AheadNumbers DEF Continuations
<1>8. QED
  BY <1>5, <1>7

\* The worker drains its queue, event by event and the last batch.
LEMMA DrainProgress ==
  ASSUME TypeOK, RetryInv, PassInv, Closing, Receive \/ Drained
  PROVE  Closing' /\ Left' < Left
<1>1. pc = "drain" /\ Left = 3 * Len(queue) + 3 * RetryQueueSize + 5
  <2>1. pc = "drain"
    BY DEF Receive, Drained, Closing, Stage
  <2>2. QED
    BY <2>1, AheadNumbers DEF Left, Stage
<1>2. CASE Receive
  <2>1. pc' = "drain" \/ (pc' = "gate" /\ ret' = "drain")
    BY <1>1, <1>2, FlushTarget DEF Receive
  <2>2. Len(queue') = Len(queue) - 1
    BY <1>2, HeadTailProperties DEF Receive, TypeOK
  <2>3. /\ Stage' = "drain"
        /\ Left' \in {3 * Len(queue') + 3 * RetryQueueSize + 5,
                      3 * Len(queue') + 3 * RetryQueueSize + 5 + 2}
    BY <2>1, <2>2, AheadNumbers DEF Left, Stage
  <2>4. QED
    BY <1>1, <2>2, <2>3, AheadNumbers DEF Closing
<1>3. CASE Drained
  <2>1. pc' = "closePass" \/ (pc' = "gate" /\ ret' = "closePass")
    BY <1>3, FlushTarget DEF Drained
  <2>2. /\ Stage' = "closePass"
        /\ Left' \in {3 * RetryQueueSize + 2, 3 * RetryQueueSize + 4}
    BY <2>1, AheadNumbers DEF Left, Stage
  <2>3. QED
    BY <1>1, <2>2, AheadNumbers DEF Closing
<1>4. QED
  BY <1>2, <1>3

\* The worker goes through its last pass.
LEMMA PassProgress ==
  ASSUME TypeOK, RetryInv, PassInv, Closing, PassBegin \/ PassPick \/ PassEnd
  PROVE  Closing' /\ Left' < Left
<1>1. CASE PassBegin
  <2>1. pc = "closePass" /\ Left = 3 * RetryQueueSize + 2
    BY <1>1, AheadNumbers DEF PassBegin, Closing, Left, Stage
  <2>2. CASE pc' = "exited"
    BY <2>1, <2>2, AheadNumbers DEF Closing, Left, Stage
  <2>3. CASE pc' # "exited"
    <3>1. /\ pc' = "pass"
          /\ pass' = [ignoreBackoff |-> pc = "closePass", i |-> 1, processed |-> 0,
                      processLimit |-> ProcessLimit, sent |-> {}]
      BY <1>1, <2>1, <2>3 DEF PassBegin, AfterPass
    <3>2. ProcessLimit \in Nat /\ ProcessLimit <= RetryQueueSize
      BY ClientAssumption, LenProperties DEF ProcessLimit, TypeOK, RetryInv, Room
    <3>3. /\ pass'.processed = 0 /\ pass'.processLimit = ProcessLimit
          /\ pass'.ignoreBackoff = (pc = "closePass")
      BY <3>1
    <3>4. Stage' = "pass" /\ Left' = 3 * ProcessLimit + 1
      BY <3>1, <3>2, <3>3 DEF Left, Stage
    <3>5. pass'.ignoreBackoff
      BY <2>1, <3>3
    <3>6. Left' < Left
      BY <2>1, <3>2, <3>4, AheadNumbers
    <3>7. QED
      BY <3>4, <3>5, <3>6 DEF Closing
  <2>4. QED
    BY <2>2, <2>3
<1>2. CASE PassPick
  <2>1. /\ pc = "pass" /\ pc' = "gate" /\ ret' = "pass"
        /\ pass.processed < pass.processLimit
        /\ pass'.processed = pass.processed + 1
        /\ pass'.processLimit = pass.processLimit
        /\ pass'.ignoreBackoff = pass.ignoreBackoff
    BY <1>2, PickTurn
  <2>2. Left = 3 * (pass.processLimit - pass.processed) + 1
    BY <2>1, AheadNumbers DEF Left, Stage
  <2>3. /\ Stage' = "pass"
        /\ Left' = 3 * (pass.processLimit - (pass.processed + 1)) + 1 + 2
    BY <2>1, AheadNumbers DEF Left, Stage
  <2>4. Left' < Left
    BY <2>1, <2>2, <2>3, AheadNumbers
  <2>5. Closing'
    BY <2>1, <2>3 DEF Closing, Stage
  <2>6. QED
    BY <2>4, <2>5
<1>3. CASE PassEnd
  <2>1. pc = "pass" /\ pass.ignoreBackoff
    BY <1>3 DEF PassEnd, Closing, Stage
  <2>2. pc' = "exited"
    BY <1>3, <2>1 DEF PassEnd, AfterPass
  <2>3. Left = 3 * (pass.processLimit - pass.processed) + 1
    BY <2>1, AheadNumbers DEF Left, Stage
  <2>4. Stage = "pass" /\ Stage' = "exited" /\ Left' = 0
    BY <2>1, <2>2 DEF Left, Stage
  <2>5. QED
    BY <2>3, <2>4, AheadNumbers DEF Closing
<1>4. QED
  BY <1>1, <1>2, <1>3

LEMMA CloseWorks ==
  ASSUME TypeOK, RetryInv, PassInv, Closing, WorkerStep \/ Receive
  PROVE  Closing' /\ Left' < Left
<1>1. ~Cancel
  BY DEF Cancel, Closing, Stage
<1>2. QED
  BY <1>1, SendProgress, DrainProgress, PassProgress DEF WorkerStep

\* A step that leaves the worker alone leaves it as much to do.
LEMMA CloseFrame ==
  ASSUME TypeOK, PassInv, Closing, UNCHANGED <<pc, ret, pass, queue>>
  PROVE  Closing' /\ ~(Left' > Left)
<1>1. Left' = Left /\ Closing'
  BY DEF Left, Stage, Closing
<1>2. Left \in Nat
  BY LeftMeasured DEF Measured
<1>3. QED
  BY <1>1, <1>2

\* Only a new event adds to it.
LEMMA CloseEnqueue ==
  ASSUME TypeOK, PassInv, Closing, NEW c \in Callers, Enqueue(c)
  PROVE  /\ Closing'
         /\ Left' > Left => Left' = Left + 3 /\ Stage = "drain"
<1>1. UNCHANGED <<pc, ret, pass>> /\ Stage' = Stage
  BY DEF Enqueue, worker, Stage
<1>2. Len(queue') \in {Len(queue), Len(queue) + 1}
  <2>1. queue \in Seq(Event) /\ held[c] \in Event
    BY DEF Enqueue, TypeOK
  <2>2. QED
    BY <2>1, AppendProperties DEF Enqueue
<1>3. Closing'
  BY <1>1 DEF Closing
<1>4. CASE Stage = "drain"
  <2>1. PICK n \in {0, 1, 2} :
          Left = 3 * Len(queue) + 3 * RetryQueueSize + 5 + n
            /\ Left' = 3 * Len(queue') + 3 * RetryQueueSize + 5 + n
    <3> DEFINE send == CASE pc = "gate" -> 2 [] pc = "transport" -> 1 [] OTHER -> 0
    <3>1. send \in {0, 1, 2}
      OBVIOUS
    <3>2. /\ Left = 3 * Len(queue) + 3 * RetryQueueSize + 5 + send
          /\ Left' = 3 * Len(queue') + 3 * RetryQueueSize + 5 + send
      BY <1>1, <1>4 DEF Left
    <3>3. QED
      BY <3>1, <3>2
  <2>2. CASE Len(queue') = Len(queue)
    BY <1>3, <2>1, <2>2, AheadNumbers
  <2>3. CASE Len(queue') = Len(queue) + 1
    <3>1. Left' = Left + 3
      BY <2>1, <2>3, AheadNumbers
    <3>2. QED
      BY <1>3, <1>4, <3>1
  <2>4. QED
    BY <1>2, <2>2, <2>3
<1>5. CASE Stage # "drain"
  <2>1. Left' = Left
    BY <1>1, <1>5 DEF Left
  <2>2. Left \in Nat
    BY LeftMeasured DEF Measured
  <2>3. QED
    BY <1>3, <2>1, <2>2
<1>6. QED
  BY <1>3, <1>4, <1>5

-----------------------------------------------------------------------------
(* The client implements ClientLife                                        *)

\* sync.Once: it is taken when the worker is cancelled, and by one Close only.
OnceInv ==
  /\ cancelled <=> once # "new"
  /\ \A c \in Closers : closer[c] = "waiting" => once = "running"
  /\ \A c, d \in Closers : closer[c] = "waiting" /\ closer[d] = "waiting" => c = d

LEMMA OnceFrame ==
  ASSUME OnceInv, UNCHANGED <<cancelled, once, closer>>
  PROVE  OnceInv'
BY DEF OnceInv

LEMMA OnceStep == TypeOK /\ OnceInv /\ [Next]_vars => OnceInv'
<1> SUFFICES ASSUME TypeOK, OnceInv, [Next]_vars PROVE OnceInv'
  OBVIOUS
<1> USE DEF shared, goroutines
<1>1. ASSUME NEW c \in Callers,
             (\E call \in Calls : Call(c, call)) \/ Enqueue(c)
      PROVE  OnceInv'
  BY <1>1, OnceFrame DEF Call, Enqueue
<1>2. ASSUME NEW c \in Closers, ContextDone(c) PROVE OnceInv'
  BY <1>2, OnceFrame DEF ContextDone
<1>3. ASSUME NEW c \in Closers, CloseEnter(c) PROVE OnceInv'
  BY <1>3 DEF CloseEnter, OnceInv, TypeOK
<1>4. ASSUME NEW c \in Closers, CloseReturn(c) PROVE OnceInv'
  BY <1>4 DEF CloseReturn, OnceInv, TypeOK
<1>5. ASSUME \/ Tick \/ Receive \/ Cancel \/ Drained \/ PassBegin \/ PassPick
             \/ PassEnd \/ SendStopped \/ Defer \/ Send \/ SendOK \/ SendTransient
             \/ SendFatal \/ Elapse \/ UNCHANGED vars
      PROVE  OnceInv'
  BY <1>5, OnceFrame
     DEF Tick, Receive, Cancel, Drained, PassBegin, PassPick, PassEnd, SendStopped,
         Defer, Send, SendOK, SendTransient, SendFatal, Elapse, vars
<1>6. QED
  BY <1>1, <1>2, <1>3, <1>4, <1>5 DEF Next, Terminated

LEMMA LifeInvariant == Spec => []OnceInv
<1>1. Init => OnceInv
  BY DEF Init, OnceInv
<1>2. TypeOK /\ RetryInv /\ CloseInv /\ OnceInv /\ [Next]_vars => OnceInv'
  BY OnceStep
<1>3. QED
  BY <1>1, <1>2, Invariant, PTL DEF Spec

\* A step of the worker: it ends, it sends, or it shows nothing.
LEMMA LifeWorker ==
  ASSUME CloseInv', UNCHANGED <<cancelled, once, closer>>,
         Done => Done', wire' # wire => ~Done /\ ~Done'
  PROVE  Life!Next \/ UNCHANGED Life!vars
<1>1. Done' => cancelled
  BY DEF CloseInv, DrainInv, AfterDrain, Done
<1>2. CASE wire' # wire
  BY <1>2 DEF Life!Next, Life!Work
<1>3. CASE wire' = wire /\ Done' = Done
  BY <1>3 DEF Life!vars
<1>4. CASE wire' = wire /\ ~Done /\ Done'
  BY <1>1, <1>4 DEF Life!Next, Life!Finish
<1>5. QED
  BY <1>2, <1>3, <1>4 DEF Done

\* A Close begins.
LEMMA LifeEnter ==
  ASSUME TypeOK, CloseInv, OnceInv, NEW c \in Closers, CloseEnter(c)
  PROVE  Life!Next \/ UNCHANGED Life!vars
<1>1. /\ UNCHANGED <<pc, wire>>
      /\ (\E d \in Closers : closer'[d] = "err")
           <=> (\E d \in Closers : closer[d] = "err")
  BY DEF CloseEnter, TypeOK, worker, history
<1>2. UNCHANGED Done
  BY <1>1 DEF Done
<1>3. CASE once = "new" /\ once' = "running" /\ cancelled' = TRUE
  <2>1. ~cancelled /\ ~Done
    BY <1>3 DEF OnceInv, CloseInv, DrainInv, AfterDrain, Done
  <2>2. QED
    BY <1>1, <1>2, <1>3, <2>1 DEF Life!Next, Life!Cancel
<1>4. CASE UNCHANGED <<once, cancelled>>
  BY <1>1, <1>2, <1>4 DEF Life!vars
<1>5. QED
  BY <1>3, <1>4 DEF CloseEnter

\* A Close returns.
LEMMA LifeReturn ==
  ASSUME TypeOK, OnceInv, NEW c \in Closers, CloseReturn(c)
  PROVE  Life!Next \/ UNCHANGED Life!vars
<1>1. UNCHANGED <<pc, wire, cancelled>>
  BY DEF CloseReturn, worker, history
<1>2. UNCHANGED Done
  BY <1>1 DEF Done
<1>3. closer'[c] # "err" =>
        ((\E d \in Closers : closer'[d] = "err")
           <=> (\E d \in Closers : closer[d] = "err"))
  BY DEF CloseReturn, TypeOK
<1>4. CASE closer[c] = "waiting" /\ Done /\ closer' = [closer EXCEPT ![c] = "nil"]
             /\ once' = "done"
  <2>1. once = "running" /\ closer'[c] = "nil"
    BY <1>4 DEF OnceInv, TypeOK
  <2>2. QED
    BY <1>1, <1>2, <1>3, <1>4, <2>1 DEF Life!Next, Life!Return
<1>5. CASE closer[c] = "waiting" /\ closer' = [closer EXCEPT ![c] = "err"]
             /\ once' = "done"
  <2>1. once = "running" /\ \E d \in Closers : closer'[d] = "err"
    BY <1>5 DEF OnceInv, TypeOK
  <2>2. QED
    BY <1>1, <1>2, <1>5, <2>1 DEF Life!Next, Life!GiveUp
<1>6. CASE closer' = [closer EXCEPT ![c] = "nil"] /\ UNCHANGED once
  <2>1. closer'[c] = "nil"
    BY <1>6 DEF TypeOK
  <2>2. QED
    BY <1>1, <1>2, <1>3, <1>6, <2>1 DEF Life!vars
<1>7. QED
  BY <1>4, <1>5, <1>6 DEF CloseReturn

LEMMA LifeStep ==
  TypeOK /\ CloseInv /\ CloseInv' /\ OnceInv /\ [Next]_vars
    => [Life!Next]_(Life!vars)
<1> SUFFICES ASSUME TypeOK, CloseInv, CloseInv', OnceInv, [Next]_vars
             PROVE  Life!Next \/ UNCHANGED Life!vars
  OBVIOUS
<1> USE DEF shared, goroutines, worker, history, Done
<1>1. ASSUME NEW c \in Callers,
             (\E call \in Calls : Call(c, call)) \/ Enqueue(c)
      PROVE  Life!Next \/ UNCHANGED Life!vars
  BY <1>1, LifeWorker DEF Call, Enqueue
<1>2. ASSUME NEW c \in Closers, ContextDone(c) PROVE Life!Next \/ UNCHANGED Life!vars
  BY <1>2, LifeWorker DEF ContextDone
<1>3. CASE Send
  BY <1>3, LifeWorker DEF Send
<1>4. ASSUME \/ Tick \/ Receive \/ Cancel \/ Drained \/ PassBegin \/ PassPick
             \/ PassEnd \/ SendStopped \/ Defer \/ SendOK \/ SendTransient
             \/ SendFatal \/ Elapse \/ UNCHANGED vars
      PROVE  Life!Next \/ UNCHANGED Life!vars
  <2>1. UNCHANGED <<cancelled, once, closer, wire>>
    BY <1>4 DEF Tick, Receive, Cancel, Drained, PassBegin, PassPick, PassEnd,
                SendStopped, Defer, SendOK, SendTransient, SendFatal, Elapse, vars
  <2>2. pc = "exited" => pc' = "exited"
    BY <1>4 DEF Tick, Receive, Cancel, Drained, PassBegin, PassPick, PassEnd,
                SendStopped, Defer, SendOK, SendTransient, SendFatal, Elapse, vars
  <2>3. QED
    BY <2>1, <2>2, LifeWorker
<1>5. QED
  BY <1>1, <1>2, <1>3, <1>4, LifeEnter, LifeReturn DEF Next, Terminated

-----------------------------------------------------------------------------
(* Theorems                                                                *)

\* No event vanishes and none is handled twice, for every number of goroutines
\* and calls, every capacity and every outcome of the sends: each borrowed event
\* is in exactly one of the nine places.
THEOREM ClientEveryEventAccounted == Spec => []EveryEventAccounted
<1>1. Inv => EveryEventAccounted
  BY DEF Inv, AccountInv
<1>2. QED
  BY <1>1, FullInvariant, PTL

\* A batch id stands for one payload and an event travels under one batch id, so
\* that an ingester may deduplicate ambiguous replays, however often batches are
\* deferred, retried and given up.
THEOREM ClientBatchIdentity == Spec => []BatchIdentity
<1>1. Inv => BatchIdentity
  BY DEF Inv, IdentityInv, BatchIdentity, Formed
<1>2. QED
  BY <1>1, FullInvariant, PTL

\* The client implements Delivery: batches are runs of consecutive events in the
\* order of acceptance, each is tried a bounded number of times and settled as a
\* whole, nothing is tried once ingestion is disabled, and a client that has
\* closed has taken out of its intake what was accepted before.
THEOREM ClientKeepsPromise == Spec => KeepsPromise
  BY FullInvariant, PromiseInit, PromiseStep, PTL
     DEF Spec, KeepsPromise, Promise!Spec

\* Close comes to an end whatever the transport answers: a closing worker never
\* turns back, each of its steps leaves it less to do, only an event enqueued while
\* it drains adds to that, and its last pass tries a batch once.  For every size of
\* the queues and every number of callers; that a worker which has steps left makes
\* them is its fairness, see CloseCompletes.
THEOREM ClientCloseProgress == Spec => CloseProgress
<1> DEFINE Progress ==
      Closing => /\ Closing'
                 /\ WorkerStep \/ Receive => Left' < Left
                 /\ Stage = "pass" /\ Send => cur.batch \notin pass.sent
                 /\ Left' > Left => /\ Left' = Left + 3 /\ Stage = "drain"
                                    /\ \E c \in Callers : Enqueue(c)
<1>1. TypeOK /\ RetryInv /\ PassInv /\ [Next]_vars => [Progress]_vars
  <2> SUFFICES ASSUME TypeOK, RetryInv, PassInv, Next, Closing
               PROVE  /\ Closing'
                      /\ WorkerStep \/ Receive => Left' < Left
                      /\ Stage = "pass" /\ Send => cur.batch \notin pass.sent
                      /\ Left' > Left => /\ Left' = Left + 3 /\ Stage = "drain"
                                         /\ \E c \in Callers : Enqueue(c)
    OBVIOUS
  <2>1. WorkerStep \/ Receive => Closing' /\ Left' < Left
    BY CloseWorks
  <2>2. Stage = "pass" /\ Send => cur.batch \notin pass.sent
    BY DEF Closing, PassInv, Send
  <2>3. ASSUME NEW c \in Callers, Enqueue(c)
        PROVE  /\ Closing'
               /\ Left' > Left => Left' = Left + 3 /\ Stage = "drain"
    BY <2>3, CloseEnqueue
  <2>4. ASSUME \/ \E c \in Callers : \E call \in Calls : Call(c, call)
               \/ \E c \in Closers : ContextDone(c) \/ CloseEnter(c) \/ CloseReturn(c)
               \/ Elapse \/ Terminated
        PROVE  Closing' /\ ~(Left' > Left)
    <3>1. UNCHANGED <<pc, ret, pass, queue>>
      BY <2>4 DEF Call, ContextDone, CloseEnter, CloseReturn, Elapse, Terminated,
                  vars, shared, worker
    <3>2. QED
      BY <3>1, CloseFrame
  <2>5. ~Tick
    BY DEF Tick, Closing, Stage
  <2>6. WorkerStep \/ Receive => ~(Left' > Left)
    <3>1. ASSUME WorkerStep \/ Receive PROVE ~(Left' > Left)
      <4>1. Left' < Left /\ Closing'
        BY <2>1, <3>1
      <4>2. TypeOK' /\ PassInv'
        BY TypeStep, PassStep
      <4>3. Left \in Nat /\ Left' \in Nat
        BY <4>1, <4>2, LeftMeasured, LeftMeasuredNext DEF Measured
      <4>4. QED
        BY <4>1, <4>3
    <3>2. QED
      BY <3>1
  <2>7. QED
    BY <2>1, <2>2, <2>3, <2>4, <2>5, <2>6 DEF Next, WorkerStep, SendReturns
<1>2. QED
  BY <1>1, Invariant, PassInvariant, PTL DEF Spec, CloseProgress

\* A client is what DefaultClient takes it for: only its worker sends, a worker
\* ends when the first Close has told it to and never starts again, and that Close
\* returns when the worker is done or its context is.
THEOREM ClientHasLife == Spec => Life!Spec
<1>1. Init => Life!Init
  BY DEF Init, Life!Init, Done
<1>2. QED
  BY <1>1, LifeStep, Invariant, LifeInvariant, PTL DEF Spec, Life!Spec

=============================================================================
