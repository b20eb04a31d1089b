------------------------------- MODULE Client -------------------------------
(***************************************************************************)
(* The Statok client (client.go): goroutines of the application put events *)
(* on a bounded queue without ever blocking; one worker goroutine batches  *)
(* them, sends the batches, keeps the ones that failed in a bounded retry  *)
(* queue and holds back all sends while a client-wide backoff runs; Close  *)
(* cancels the worker, which drains the queue before it exits.             *)
(*                                                                         *)
(* Time is relative: nextSendAttempt and a retry's nextAttempt are the     *)
(* units of time still to wait, and Elapse makes one unit pass.  A zero    *)
(* nextSendAttempt is both the code's zero time and an instant that has    *)
(* passed, which the code treats alike.                                    *)
(***************************************************************************)
EXTENDS Naturals, Sequences, FiniteSets

CONSTANTS
  Callers,             \* goroutines that call Count, CountUnique, Total, ...
  Closers,             \* goroutines that call Close
  Series,              \* metric and labels of a Total, one value per seriesKey
  Calls,               \* the calls the application makes
  MaxCalls,            \* bound: how many calls it makes in all, see RetryQueue
  QueueSize,           \* defaultQueueSize
  MaxBatchSize,        \* defaultMaxBatchSize
  MaxTotalSeries,      \* defaultMaxTotalSeries
  RetryQueueSize,      \* defaultRetryQueueSize
  RetryFlushMaxSends,  \* defaultRetryFlushMaxSends
  RetryMaxAttempts,    \* defaultRetryMaxAttempts
  RetryDelays,         \* attempt -> the delays retryDelay may return
  BackoffCap,          \* attempt at which clientBackoffDelay stops growing
  BackoffDelays,       \* attempt -> the delays clientBackoffDelay may return
  NoTotal,             \* a series for which the worker has no baseline yet
  NoEvent              \* what a goroutine outside any call holds

Ids == 1..MaxCalls

Event == [id : Ids, typ : {"counter", "total"}, series : Series, value : Nat]

ASSUME ClientAssumption ==
  /\ Calls \subseteq [typ : {"counter", "total"}, series : Series, value : Nat]
  /\ MaxCalls \in Nat
  /\ QueueSize \in Nat \ {0}
  /\ MaxBatchSize \in Nat \ {0}
  /\ MaxTotalSeries \in Nat
  /\ RetryQueueSize \in Nat \ {0}
  /\ RetryFlushMaxSends \in Nat
  /\ RetryMaxAttempts \in Nat \ {0}
  /\ RetryDelays \in [1..RetryMaxAttempts -> SUBSET Nat]
  /\ BackoffCap \in Nat \ {0}
  /\ BackoffDelays \in [1..BackoffCap -> SUBSET Nat]
  /\ NoTotal \notin Nat
  /\ NoEvent \notin Event

VARIABLES
  \* shared between the goroutines
  queue,        \* chan *event
  dropped,      \* events rejected because the queue was full
  stopSending,  \* atomic.Bool
  cancelled,    \* the worker's context
  once,         \* sync.Once of Close: "new", "running" or "done"
  \* per goroutine
  calls,        \* number of calls that got as far as borrowing an event
  held,         \* caller -> the event it is about to enqueue
  closer,       \* closer -> "idle", "waiting", "blocked", "nil" or "err"
  ctxDone,      \* closer -> its context is cancelled or past its deadline
  \* the worker
  pc,           \* where it is, see WorkerPC
  ret,          \* where it continues once sendPayload returns
  batch,        \* ids of the events collected for the next flush
  totals,       \* series -> last total seen
  cur,          \* the payload sendPayload is working on
  retryQueue,
  pass,         \* the locals of flushRetryQueue
  batchSeq,
  transientBackoffAttempt,
  nextSendAttempt,
  \* history, for the properties only
  early,        \* events that were in the queue before Close cancelled
  absorbed,     \* totals that only moved a baseline
  delivered,    \* events of batches the transport accepted
  lost,         \* events of batches the worker gave up
  sends,        \* batch -> how often it was handed to the transport
  wire          \* the payloads that were handed to the transport

shared == <<queue, dropped, stopSending, cancelled, once>>
goroutines == <<calls, held, closer, ctxDone>>
backoff == <<transientBackoffAttempt, nextSendAttempt>>
worker == <<pc, ret, batch, totals, cur, retryQueue, pass, batchSeq,
            transientBackoffAttempt, nextSendAttempt>>
history == <<early, absorbed, delivered, lost, sends, wire>>
vars == <<queue, dropped, stopSending, cancelled, once, calls, held, closer,
          ctxDone, pc, ret, batch, totals, cur, retryQueue, pass, batchSeq,
          transientBackoffAttempt, nextSendAttempt, early, absorbed,
          delivered, lost, sends, wire>>

(***************************************************************************)
(* "select" and "drain" are the two loops of run, "tickPass" and           *)
(* "closePass" the two calls of flushRetryQueue, "pass" its loop, "gate"   *)
(* the entry of sendPayload, "transport" its call of Transport.Send and    *)
(* "exited" is run's return, which closes the done channel.                *)
(***************************************************************************)
WorkerPC == {"select", "drain", "tickPass", "closePass", "pass", "gate",
             "transport", "exited"}

Done == pc = "exited"

Elements(s) == {s[i] : i \in 1..Len(s)}

Payload == [batch : Nat, events : SUBSET Ids]

RetryBatch == [batch : Nat, events : SUBSET Ids, attempts : Nat,
               nextAttempt : Nat]

Sending == [batch : Nat, events : SUBSET Ids, attempt : Nat,
            fromRetry : BOOLEAN]

Pass == [ignoreBackoff : BOOLEAN, i : Nat \ {0}, processed : Nat,
         processLimit : Nat, sent : SUBSET Nat]

NoPayload == [batch |-> 0, events |-> {}, attempt |-> 0, fromRetry |-> FALSE]

NoPass == [ignoreBackoff |-> FALSE, i |-> 1, processed |-> 0,
           processLimit |-> 0, sent |-> {}]

Init ==
  /\ queue = <<>>
  /\ dropped = {}
  /\ stopSending = FALSE
  /\ cancelled = FALSE
  /\ once = "new"
  /\ calls = 0
  /\ held = [c \in Callers |-> NoEvent]
  /\ closer = [c \in Closers |-> "idle"]
  /\ ctxDone = [c \in Closers |-> FALSE]
  /\ pc = "select"
  /\ ret = "select"
  /\ batch = <<>>
  /\ totals = [s \in Series |-> NoTotal]
  /\ cur = NoPayload
  /\ retryQueue = <<>>
  /\ pass = NoPass
  /\ batchSeq = 0
  /\ transientBackoffAttempt = 0
  /\ nextSendAttempt = 0
  /\ early = {}
  /\ absorbed = {}
  /\ delivered = {}
  /\ lost = {}
  /\ sends = <<>>
  /\ wire = {}

-----------------------------------------------------------------------------
(* The application's goroutines                                            *)

\* enqueue and enqueueUnique up to borrowEvent: a call that finds the client
\* stopped or its worker gone returns and leaves no trace.
Call(c, call) ==
  /\ held[c] = NoEvent
  /\ calls < MaxCalls
  /\ ~stopSending
  /\ ~Done
  /\ calls' = calls + 1
  /\ held' = [held EXCEPT ![c] = [id |-> calls + 1, typ |-> call.typ,
                                  series |-> call.series,
                                  value |-> call.value]]
  /\ UNCHANGED <<shared, closer, ctxDone, worker, history>>

\* Mutant: the queue is not bounded.
HasRoom_Unbounded == TRUE

HasRoom == Len(queue) < QueueSize

\* The non-blocking channel send; it does not look at done or stopSending again.
Enqueue(c) ==
  /\ held[c] # NoEvent
  /\ IF HasRoom
       THEN /\ queue' = Append(queue, held[c])
            /\ early' = IF cancelled THEN early ELSE early \cup {held[c].id}
            /\ UNCHANGED dropped
       ELSE /\ dropped' = dropped \cup {held[c].id}
            /\ UNCHANGED <<queue, early>>
  /\ held' = [held EXCEPT ![c] = NoEvent]
  /\ UNCHANGED <<stopSending, cancelled, once, calls, closer, ctxDone, worker,
                 absorbed, delivered, lost, sends, wire>>

\* The context of a Close is cancelled or its deadline passes; one that was
\* done before the call is one that is done right after it.
ContextDone(c) ==
  /\ closer[c] \in {"waiting", "blocked"}
  /\ ~ctxDone[c]
  /\ ctxDone' = [ctxDone EXCEPT ![c] = TRUE]
  /\ UNCHANGED <<shared, calls, held, closer, worker, history>>

\* once.Do: the first caller runs the function, a concurrent one blocks until
\* that function has returned, a later one falls through.
CloseEnter(c) ==
  /\ closer[c] = "idle"
  /\ \/ /\ once = "new"
        /\ once' = "running"
        /\ cancelled' = TRUE
        /\ closer' = [closer EXCEPT ![c] = "waiting"]
     \/ /\ once = "running"
        /\ closer' = [closer EXCEPT ![c] = "blocked"]
        /\ UNCHANGED <<once, cancelled>>
     \/ /\ once = "done"
        /\ closer' = [closer EXCEPT ![c] = "nil"]
        /\ UNCHANGED <<once, cancelled>>
  /\ UNCHANGED <<queue, dropped, stopSending, calls, held, ctxDone, worker,
                 history>>

\* The select inside once.Do, and the return of a Close that was blocked by it.
CloseReturn(c) ==
  /\ \/ /\ closer[c] = "waiting"
        /\ Done
        /\ closer' = [closer EXCEPT ![c] = "nil"]
        /\ once' = "done"
     \/ /\ closer[c] = "waiting"
        /\ ctxDone[c]
        /\ closer' = [closer EXCEPT ![c] = "err"]
        /\ once' = "done"
     \/ /\ closer[c] = "blocked"
        /\ once = "done"
        /\ closer' = [closer EXCEPT ![c] = "nil"]
        /\ UNCHANGED once
  /\ UNCHANGED <<queue, dropped, stopSending, cancelled, calls, held, ctxDone,
                 worker, history>>

-----------------------------------------------------------------------------
(* The worker: run                                                         *)

\* flush of the collected events, continuing at next.  An empty batch is left
\* alone; a stopped client discards the events; otherwise buildPayload gives
\* the payload the next batch id.
Flush(events, next) ==
  \/ /\ events = <<>>
     /\ pc' = next
     /\ batch' = <<>>
     /\ UNCHANGED <<ret, cur, batchSeq, lost, sends>>
  \/ /\ events # <<>>
     /\ stopSending
     /\ pc' = next
     /\ batch' = <<>>
     /\ lost' = lost \cup Elements(events)
     /\ UNCHANGED <<ret, cur, batchSeq, sends>>
  \/ /\ events # <<>>
     /\ ~stopSending
     /\ pc' = "gate"
     /\ ret' = next
     /\ batch' = <<>>
     /\ batchSeq' = batchSeq + 1
     /\ sends' = Append(sends, 0)
     /\ cur' = [batch |-> batchSeq + 1, events |-> Elements(events),
                attempt |-> 1, fromRetry |-> FALSE]
     /\ UNCHANGED lost

\* case <-ticker.C
Tick ==
  /\ pc = "select"
  /\ Flush(batch, "tickPass")
  /\ UNCHANGED <<shared, goroutines, totals, retryQueue, pass, backoff, early,
                 absorbed, delivered, wire>>

Tracked == {s \in Series : totals[s] # NoTotal}

\* applyTotal: a total passes on as a counter only when it exceeds the last one
\* of its series; a series beyond the cap is not remembered.
applyTotal(ev) ==
  totals' = IF ev.series \in Tracked \/ Cardinality(Tracked) < MaxTotalSeries
              THEN [totals EXCEPT ![ev.series] = ev.value]
              ELSE totals

EmitsDelta(ev) == ev.series \in Tracked /\ ev.value > totals[ev.series]

\* case ev := <-c.queue, in the main loop and in the drain loop alike
Receive ==
  /\ pc \in {"select", "drain"}
  /\ queue # <<>>
  /\ LET ev == Head(queue) IN
       /\ queue' = Tail(queue)
       /\ IF ev.typ = "total" THEN applyTotal(ev) ELSE UNCHANGED totals
       /\ \/ /\ ev.typ = "total"
             /\ ~EmitsDelta(ev)
             /\ absorbed' = absorbed \cup {ev.id}
             /\ UNCHANGED <<pc, ret, batch, cur, batchSeq, lost, sends>>
          \/ /\ ev.typ = "total" => EmitsDelta(ev)
             /\ IF Len(batch) + 1 >= MaxBatchSize
                  THEN Flush(Append(batch, ev.id), pc)
                  ELSE /\ batch' = Append(batch, ev.id)
                       /\ UNCHANGED <<pc, ret, cur, batchSeq, lost, sends>>
             /\ UNCHANGED absorbed
  /\ UNCHANGED <<dropped, stopSending, cancelled, once, goroutines, retryQueue,
                 pass, backoff, early, delivered, wire>>

\* Mutant: cancellation does not drain the queue.
AfterCancel_NoDrain == "closePass"

AfterCancel == "drain"

\* case <-ctx.Done()
Cancel ==
  /\ pc = "select"
  /\ cancelled
  /\ pc' = AfterCancel
  /\ UNCHANGED <<shared, goroutines, ret, batch, totals, cur, retryQueue, pass,
                 batchSeq, backoff, history>>

\* The drain loop's default case: the queue was empty at this instant.
Drained ==
  /\ pc = "drain"
  /\ queue = <<>>
  /\ Flush(batch, "closePass")
  /\ UNCHANGED <<shared, goroutines, totals, retryQueue, pass, backoff, early,
                 absorbed, delivered, wire>>

-----------------------------------------------------------------------------
(* The worker: flushRetryQueue                                             *)

\* Mutant: run does not return after its last pass.
AfterPass_NoReturn(ignoreBackoff) == "select"

\* Where run continues: it returns only after the pass that Close asks for.
AfterPass(ignoreBackoff) == IF ignoreBackoff THEN "exited" ELSE "select"

ProcessLimit ==
  IF RetryFlushMaxSends > 0 /\ Len(retryQueue) > RetryFlushMaxSends
    THEN RetryFlushMaxSends ELSE Len(retryQueue)

\* The prologue of flushRetryQueue, with its early return.
PassBegin ==
  /\ pc \in {"tickPass", "closePass"}
  /\ LET ignore == pc = "closePass" IN
       IF retryQueue = <<>> \/ stopSending
         THEN /\ pc' = AfterPass(ignore)
              /\ pass' = NoPass
         ELSE /\ pc' = "pass"
              /\ pass' = [ignoreBackoff |-> ignore, i |-> 1, processed |-> 0,
                          processLimit |-> ProcessLimit, sent |-> {}]
  /\ UNCHANGED <<shared, goroutines, ret, batch, totals, cur, retryQueue,
                 batchSeq, backoff, history>>

\* Indices the loop may still pick: not before i, and due.
DueIndices ==
  {j \in pass.i..Len(retryQueue) :
     pass.ignoreBackoff \/ retryQueue[j].nextAttempt = 0}

\* Mutant: the shift starts one item late.
Without_OffByOne(s, j) ==
  [k \in 1..(Len(s) - 1) |-> IF k <= j THEN s[k] ELSE s[k + 1]]

\* copy(q[i:], q[i+1:]) and the shorter slice
Without(s, j) == [k \in 1..(Len(s) - 1) |-> IF k < j THEN s[k] ELSE s[k + 1]]

\* Mutant: a resend is a new batch.
Resend_NewIdentity(r) ==
  [batch |-> batchSeq + 1, events |-> r.events, attempt |-> r.attempts + 1,
   fromRetry |-> TRUE]

\* What the pass hands to sendPayload for an item of the queue.
Resend(r) ==
  [batch |-> r.batch, events |-> r.events, attempt |-> r.attempts + 1,
   fromRetry |-> TRUE]

\* Mutant: the pass goes on for as long as it finds something due.
PassPick_Uncounted ==
  /\ pc = "pass"
  /\ pass.processed < pass.processLimit
  /\ \E j \in DueIndices :
       /\ \A k \in DueIndices : j <= k
       /\ retryQueue' = Without(retryQueue, j)
       /\ cur' = Resend(retryQueue[j])
       /\ pass' = [pass EXCEPT !.i = j]
  /\ pc' = "gate"
  /\ ret' = "pass"
  /\ UNCHANGED <<shared, goroutines, batch, totals, batchSeq, backoff, history>>

\* One turn of the loop: the first due item leaves the queue for sendPayload.
PassPick ==
  /\ pc = "pass"
  /\ pass.processed < pass.processLimit
  /\ \E j \in DueIndices :
       /\ \A k \in DueIndices : j <= k
       /\ retryQueue' = Without(retryQueue, j)
       /\ cur' = Resend(retryQueue[j])
       /\ pass' = [pass EXCEPT !.i = j, !.processed = @ + 1]
  /\ pc' = "gate"
  /\ ret' = "pass"
  /\ UNCHANGED <<shared, goroutines, batch, totals, batchSeq, backoff, history>>

PassEnd ==
  /\ pc = "pass"
  /\ pass.processed >= pass.processLimit \/ DueIndices = {}
  /\ pc' = AfterPass(pass.ignoreBackoff)
  /\ UNCHANGED <<shared, goroutines, ret, batch, totals, cur, retryQueue, pass,
                 batchSeq, backoff, history>>

-----------------------------------------------------------------------------
(* The worker: sendPayload                                                 *)

\* Mutant: one attempt more than the budget.
Refused_OffByOne(attempts) ==
  attempts > RetryMaxAttempts \/ Len(retryQueue) >= RetryQueueSize

\* Why enqueueRetryAt turns a batch away.
Refused(attempts) ==
  attempts >= RetryMaxAttempts \/ Len(retryQueue) >= RetryQueueSize

\* enqueueRetryAt: refused once the attempts are used up or the queue is full,
\* and then the batch is gone.
enqueueRetryAt(attempts, nextAttempt) ==
  IF Refused(attempts)
    THEN /\ lost' = lost \cup cur.events
         /\ UNCHANGED retryQueue
    ELSE /\ retryQueue' = Append(retryQueue,
              [batch |-> cur.batch, events |-> cur.events,
               attempts |-> attempts, nextAttempt |-> nextAttempt])
         /\ UNCHANGED lost

\* sendPayload returns to its caller.
Return == pc' = ret /\ cur' = NoPayload

\* sendPayload on a client that has been stopped.
SendStopped ==
  /\ pc = "gate"
  /\ stopSending
  /\ lost' = lost \cup cur.events
  /\ Return
  /\ UNCHANGED <<shared, goroutines, ret, batch, totals, retryQueue, pass,
                 batchSeq, backoff, early, absorbed, delivered, sends, wire>>

\* Mutant: a deferral counts as an attempt.
LastAttempt_Counted == cur.attempt

\* lastAttempt of deferForClientBackoff
LastAttempt == IF cur.attempt > 0 THEN cur.attempt - 1 ELSE 0

\* deferForClientBackoff: the batch waits for the client's gate and the attempt
\* is not counted.
Defer ==
  /\ pc = "gate"
  /\ ~stopSending
  /\ nextSendAttempt > 0
  /\ enqueueRetryAt(LastAttempt, nextSendAttempt)
  /\ Return
  /\ UNCHANGED <<shared, goroutines, ret, batch, totals, pass, batchSeq,
                 backoff, early, absorbed, delivered, sends, wire>>

\* Mutant: a stopped client still sends what waits for a retry.
MaySend_Stopped == nextSendAttempt = 0

\* Neither stopped nor held back by the client's gate.
MaySend == ~stopSending /\ nextSendAttempt = 0

\* The call of Transport.Send.
Send ==
  /\ pc = "gate"
  /\ MaySend
  /\ pc' = "transport"
  /\ sends' = [sends EXCEPT ![cur.batch] = @ + 1]
  /\ wire' = wire \cup {[batch |-> cur.batch, events |-> cur.events]}
  /\ pass' = IF cur.fromRetry
               THEN [pass EXCEPT !.sent = @ \cup {cur.batch}] ELSE pass
  /\ UNCHANGED <<shared, goroutines, ret, batch, totals, cur, retryQueue,
                 batchSeq, backoff, early, absorbed, delivered, lost>>

\* Send returned nil: resetTransientBackoff.
SendOK ==
  /\ pc = "transport"
  /\ delivered' = delivered \cup cur.events
  /\ transientBackoffAttempt' = 0
  /\ nextSendAttempt' = 0
  /\ Return
  /\ UNCHANGED <<shared, goroutines, ret, batch, totals, retryQueue, pass,
                 batchSeq, early, absorbed, lost, sends, wire>>

\* Mutant: an answer that disables ingestion is retried all the same.
SendTransient_Stops ==
  /\ pc = "transport"
  /\ transientBackoffAttempt' =
       IF transientBackoffAttempt < BackoffCap THEN transientBackoffAttempt + 1
                                               ELSE BackoffCap
  /\ nextSendAttempt' \in BackoffDelays[transientBackoffAttempt']
  /\ \E d \in RetryDelays[cur.attempt] : enqueueRetryAt(cur.attempt, d)
  /\ Return
  /\ stopSending' \in {stopSending, TRUE}
  /\ UNCHANGED <<queue, dropped, cancelled, once, goroutines, ret, batch,
                 totals, pass, batchSeq, early, absorbed, delivered, sends,
                 wire>>

\* Send returned an error for which shouldRetryTransport holds.
SendTransient ==
  /\ pc = "transport"
  /\ transientBackoffAttempt' =
       IF transientBackoffAttempt < BackoffCap THEN transientBackoffAttempt + 1
                                               ELSE BackoffCap
  /\ nextSendAttempt' \in BackoffDelays[transientBackoffAttempt']
  /\ \E d \in RetryDelays[cur.attempt] : enqueueRetryAt(cur.attempt, d)
  /\ Return
  /\ UNCHANGED <<shared, goroutines, ret, batch, totals, pass, batchSeq, early,
                 absorbed, delivered, sends, wire>>

\* Send returned any other error; a StopIngestError disables the client.
SendFatal ==
  /\ pc = "transport"
  /\ stopSending' \in {stopSending, TRUE}
  /\ lost' = lost \cup cur.events
  /\ Return
  /\ UNCHANGED <<queue, dropped, cancelled, once, goroutines, ret, batch,
                 totals, retryQueue, pass, batchSeq, backoff, early, absorbed,
                 delivered, sends, wire>>

-----------------------------------------------------------------------------
Less(n) == IF n > 0 THEN n - 1 ELSE 0

\* One unit of time passes.
Elapse ==
  /\ nextSendAttempt > 0 \/ \E i \in 1..Len(retryQueue) :
                              retryQueue[i].nextAttempt > 0
  /\ nextSendAttempt' = Less(nextSendAttempt)
  /\ retryQueue' = [i \in 1..Len(retryQueue) |->
                      [retryQueue[i] EXCEPT !.nextAttempt = Less(@)]]
  /\ UNCHANGED <<shared, goroutines, pc, ret, batch, totals, cur, pass,
                 batchSeq, transientBackoffAttempt, history>>

\* The client has shut down and nobody is inside one of its methods.
Terminated ==
  /\ Done
  /\ \A c \in Callers : held[c] = NoEvent
  /\ \A c \in Closers : closer[c] \in {"nil", "err"}
  /\ UNCHANGED vars

SendReturns == SendOK \/ SendTransient \/ SendFatal

WorkerStep == \/ Cancel \/ Drained \/ PassBegin \/ PassPick \/ PassEnd
              \/ SendStopped \/ Defer \/ Send \/ SendReturns

Next ==
  \/ \E c \in Callers : \E call \in Calls : Call(c, call)
  \/ \E c \in Callers : Enqueue(c)
  \/ \E c \in Closers : ContextDone(c) \/ CloseEnter(c) \/ CloseReturn(c)
  \/ Tick \/ Receive \/ Cancel \/ Drained
  \/ PassBegin \/ PassPick \/ PassEnd
  \/ SendStopped \/ Defer \/ Send \/ SendOK \/ SendTransient \/ SendFatal
  \/ Elapse
  \/ Terminated

Spec == Init /\ [][Next]_vars

(***************************************************************************)
(* The select of run chooses at random among its ready cases, so a case    *)
(* that is ready again and again is taken: SF.  The worker is never        *)
(* descheduled for ever, Transport.Send runs under a 5 s deadline, time    *)
(* passes and a goroutine inside Close or Count moves on: WF.  Nobody is   *)
(* obliged to call anything, and no outcome of Send is ever obliged.       *)
(***************************************************************************)
Fairness ==
  /\ SF_vars(Tick) /\ SF_vars(Receive) /\ SF_vars(Cancel)
  /\ WF_vars(WorkerStep)
  /\ WF_vars(Elapse)
  /\ \A c \in Callers : WF_vars(Enqueue(c))
  /\ \A c \in Closers : WF_vars(CloseReturn(c))

FairSpec == Spec /\ Fairness

-----------------------------------------------------------------------------
(* Properties                                                              *)

QueuedIds == {e.id : e \in Elements(queue)}
HeldIds == {held[c].id : c \in {d \in Callers : held[d] # NoEvent}}
RetryIds == UNION {r.events : r \in Elements(retryQueue)}

\* Type correctness: every variable of the client keeps its shape and the
\* event queue its capacity (client.go, Client and run).
TypeOK ==
  /\ queue \in Seq(Event)
  /\ Len(queue) <= QueueSize
  /\ dropped \subseteq Ids
  /\ stopSending \in BOOLEAN
  /\ cancelled \in BOOLEAN
  /\ once \in {"new", "running", "done"}
  /\ calls \in 0..MaxCalls
  /\ held \in [Callers -> Event \cup {NoEvent}]
  /\ closer \in [Closers -> {"idle", "waiting", "blocked", "nil", "err"}]
  /\ ctxDone \in [Closers -> BOOLEAN]
  /\ pc \in WorkerPC
  /\ ret \in {"select", "drain", "tickPass", "closePass", "pass"}
  /\ batch \in Seq(Ids)
  /\ totals \in [Series -> Nat \cup {NoTotal}]
  /\ cur \in Sending
  /\ retryQueue \in Seq(RetryBatch)
  /\ pass \in Pass
  /\ batchSeq \in Nat
  /\ transientBackoffAttempt \in 0..BackoffCap
  /\ nextSendAttempt \in Nat
  /\ early \subseteq Ids
  /\ absorbed \subseteq Ids
  /\ delivered \subseteq Ids
  /\ lost \subseteq Ids
  /\ sends \in Seq(Nat)
  /\ wire \subseteq Payload

\* The places an event can be in, from the call that made it to its end.
Places == <<HeldIds, dropped, QueuedIds, absorbed, Elements(batch), cur.events,
            RetryIds, delivered, lost>>

\* No event vanishes and none is handled twice: whatever the order of calls,
\* flushes, retries, a full queue and Close, every event that was borrowed is in
\* exactly one place, and the only ways out are the queue-full counter, a total
\* that only moves its baseline, a send that succeeded and a batch that the
\* worker gave up (client.go, run, flushRetryQueue and sendPayload).
EveryEventAccounted ==
  /\ UNION Elements(Places) = 1..calls
  /\ \A i, j \in 1..Len(Places) : i # j => Places[i] \cap Places[j] = {}

\* Retrying is bounded in memory and in traffic: both queues keep their capacity
\* and no batch is handed to the transport more often than
\* defaultRetryMaxAttempts, although deferrals put it back into the queue
\* without counting an attempt (client.go:480-556).
RetryBounded ==
  /\ TypeOK
  /\ Len(retryQueue) <= RetryQueueSize
  /\ \A b \in 1..Len(sends) : sends[b] <= RetryMaxAttempts

\* What lets an ingester deduplicate ambiguous replays by batch id: over the
\* life of the client a batch id stands for one payload, and an event travels
\* under one batch id only (client.go:428-432, 538).
BatchIdentity ==
  \A p, q \in wire :
    p.batch = q.batch \/ p.events \cap q.events # {} => p = q

\* Close flushes the queue: once the worker is gone, no event that was in the
\* queue before Close cancelled it is still in the queue or in the batch.  An
\* event enqueued later may be stranded (client.go:353-375, 229-236).
CloseDrains ==
  Done => early \cap (QueuedIds \cup Elements(batch)) = {}

\* After a response that disables ingestion no payload reaches the transport
\* again, from a fresh batch, a retry or the final pass of Close, and the client
\* never comes back (client.go:409, 442, 459, 559).
StopIsFinal ==
  [][stopSending => stopSending' /\ wire' = wire /\ sends' = sends]_vars

\* A retry that meets the client's gate goes back to the queue: it was taken
\* out just before, so neither a full queue nor its attempts can lose it.
\* deferForClientBackoff relies on this, it ignores the result of
\* enqueueRetryAt (client.go:488, 574-578).
DeferralNeverLoses ==
  [][pc = "gate" /\ cur.fromRetry /\ ~stopSending => lost' = lost]_vars

\* Where run is, or where it continues after the send it is in
Stage == IF pc \in {"gate", "transport"} THEN ret ELSE pc

\* The worker has seen that it is cancelled.
Closing ==
  \/ Stage \in {"drain", "closePass", "exited"}
  \/ Stage = "pass" /\ pass.ignoreBackoff

\* The steps a closing worker can still make at most: three for every queued
\* event, every batch that waits for a retry and the last batch, and two for the
\* pass itself.
Left ==
  (CASE Stage = "drain" -> 3 * Len(queue) + 3 * RetryQueueSize + 5
     [] Stage = "closePass" -> 3 * RetryQueueSize + 2
     [] Stage = "pass" -> 3 * (pass.processLimit - pass.processed) + 1
     [] OTHER -> 0)
  + (CASE pc = "gate" -> 2 [] pc = "transport" -> 1 [] OTHER -> 0)

\* Nothing but a new event delays a Close: a worker that has begun to close never
\* turns back, every step it makes leaves it less to do, whatever the transport
\* answers and the backoff defers, and an event that is enqueued meanwhile adds
\* three steps at most, and none once the queue is drained.  The last pass tries
\* a batch once (client.go:353-375, 558-582).
CloseProgress ==
  [][Closing => /\ Closing'
                /\ WorkerStep \/ Receive => Left' < Left
                /\ Stage = "pass" /\ Send => cur.batch \notin pass.sent
                /\ Left' > Left => /\ Left' = Left + 3 /\ Stage = "drain"
                                  /\ \E c \in Callers : Enqueue(c)]_vars

\* Close ends: once the worker is cancelled, which the first Close does and nothing
\* undoes, it drains, makes its last pass and exits, and no Close waits for ever, be
\* it the first, a second inside once.Do or one that comes later
\* (client.go:302-311, 353).
CloseCompletes ==
  cancelled ~> Done /\ \A c \in Closers : closer[c] \notin {"waiting", "blocked"}

-----------------------------------------------------------------------------
(* What the client promises, see Delivery                                  *)

\* The batches that are sent or wait for a retry; tries counts the sends.
OpenBatches ==
  {[batch |-> b.batch, events |-> b.events, tries |-> sends[b.batch]] :
     b \in {c \in {cur} : c.batch # 0} \cup Elements(retryQueue)}

\* What was accepted and is in no batch yet: the batch being collected, then the
\* queue.
IdsOf(q) == [i \in 1..Len(q) |-> q[i].id]
Intake == batch \o IdsOf(queue)

Promise ==
  INSTANCE Delivery WITH
    MaxBatch <- MaxBatchSize, MaxTries <- RetryMaxAttempts,
    recorded <- calls, held <- HeldIds, intake <- Intake, open <- OpenBatches,
    formed <- batchSeq, rejected <- dropped,
    stopped <- stopSending, closing <- cancelled, due <- early, closed <- Done

\* The queue, the flushes, the gate, the retry passes and Close together
\* implement Delivery: events are batched in the order of acceptance without
\* gaps, a batch is tried a bounded number of times and settled as a whole,
\* nothing is tried once ingestion is disabled, and only the answer to a tried
\* batch disables it (client.go:321-377, 407-582).
KeepsPromise == Promise!Spec

-----------------------------------------------------------------------------
(* What DefaultClient makes of a client, see ClientLife                    *)

Life ==
  INSTANCE ClientLife WITH
    worker <- IF Done THEN "done" ELSE IF cancelled THEN "closing" ELSE "running",
    once <- IF once = "done" THEN "used" ELSE once,
    gaveUp <- \E c \in Closers : closer[c] = "err",
    sent <- wire

-----------------------------------------------------------------------------
(* What README.md, Lifecycle, says of Close and the code does not do       *)

\* Close "makes a final bounded attempt for retry batches even if their backoff
\* has not elapsed yet" (README.md:118): a final pass that found retry batches
\* handed at least one to the transport (client.go:372, 451, 481).
ClosePassAttempts ==
  Done /\ pass.ignoreBackoff /\ ~stopSending => pass.sent # {}

=============================================================================
