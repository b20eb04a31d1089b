------------------------------ MODULE Pipeline ------------------------------
(***************************************************************************)
(* The way of an event object through the client: a caller borrows it from *)
(* the pool and enqueues or releases it, the worker collects a batch,      *)
(* builds a payload from it, sends that and releases the objects, which    *)
(* callers then fill again while the payload may wait for its retry.       *)
(* Every send encodes the payload anew, with counters rounded to integers. *)
(*                                                                         *)
(* Composes EventPool and BatchBuilder; when the worker flushes, retries   *)
(* or gives up is left open here and modelled in Client.                   *)
(***************************************************************************)
EXTENDS BatchBuilder

CONSTANTS
  Scale,                 \* a counter's unit is Scale of the model's
  QueueSize,             \* defaultQueueSize
  MaxBatchSize,          \* defaultMaxBatchSize
  RetryQueueSize,        \* defaultRetryQueueSize
  MaxEvents              \* bound: events recorded in all

ASSUME PipelineAssumption ==
  /\ Scale \in Nat \ {0}
  /\ QueueSize \in Nat /\ MaxBatchSize \in Nat /\ RetryQueueSize \in Nat
  /\ MaxEvents \in Nat

VARIABLES
  events,     \* number of events recorded
  held,       \* objects a caller has borrowed and not yet enqueued
  queue,      \* chan *event
  batch,      \* run's batch
  pc,         \* the worker: "select", "build", "send" or "release"
  added,      \* events of the batch that are in the builder
  payload,    \* what sendPayload is sending
  retryQueue, \* payloads that wait for a retry
  sent        \* history, per series of delivered payloads: the integers on the
              \* wire, the exact sum, and the lines they may take

flow == <<events, held, queue, batch, pc, added, payload, retryQueue, sent>>
vars == <<pool, event, array, builder, flow>>

NoPayload == [counters |-> <<>>, values |-> <<>>, uniques |-> <<>>,
              recorded |-> NothingRecorded, aggregated |-> {}]

Init ==
  /\ PoolInit /\ BuilderInit
  /\ events = 0 /\ held = <<>> /\ queue = <<>> /\ batch = <<>>
  /\ pc = "select" /\ added = 0 /\ payload = NoPayload /\ retryQueue = <<>>
  /\ sent = [x \in Series |-> [wire |-> 0, exact |-> 0, lines |-> 0]]

-----------------------------------------------------------------------------
(* The callers                                                             *)

\* Count, Value and CountUnique up to borrowEvent and borrowUniqueEvent
Borrow(o, x, ev) ==
  /\ events < MaxEvents
  /\ held = <<>>
  /\ borrowEvent(o, x, ev)
  /\ events' = events + 1
  /\ held' = <<o>>
  /\ UNCHANGED <<builder, queue, batch, pc, added, payload, retryQueue, sent>>

\* The non-blocking send of enqueue and enqueueUnique
Enqueue ==
  /\ held # <<>>
  /\ held' = <<>>
  /\ IF Len(queue) < QueueSize
       THEN /\ queue' = Append(queue, held[1])
            /\ UNCHANGED <<pool, event, array>>
       ELSE releaseEvents(held) /\ UNCHANGED queue
  /\ UNCHANGED <<builder, events, batch, pc, added, payload, retryQueue, sent>>

-----------------------------------------------------------------------------
(* The worker                                                              *)

Receive ==
  /\ pc = "select"
  /\ queue # <<>> /\ Len(batch) < MaxBatchSize
  /\ batch' = Append(batch, Head(queue))
  /\ queue' = Tail(queue)
  /\ UNCHANGED <<pool, event, array, builder, events, held, pc, added, payload,
                 retryQueue, sent>>

\* Mutant: the released event is put into the batch all the same.
Absorb_Kept ==
  /\ pc = "select"
  /\ queue # <<>> /\ Len(batch) < MaxBatchSize
  /\ event[Head(queue)].typ = "counter"
  /\ releaseEvents(<<Head(queue)>>)
  /\ batch' = Append(batch, Head(queue))
  /\ queue' = Tail(queue)
  /\ UNCHANGED <<builder, events, held, pc, added, payload, retryQueue, sent>>

\* A total that only moves its baseline is released at once.  What applyTotal
\* does with totals is part of Client: here any counter may stand for one.
Absorb ==
  /\ pc = "select"
  /\ queue # <<>> /\ Len(batch) < MaxBatchSize
  /\ event[Head(queue)].typ = "counter"
  /\ releaseEvents(<<Head(queue)>>)
  /\ queue' = Tail(queue)
  /\ UNCHANGED <<builder, events, held, batch, pc, added, payload, retryQueue,
                 sent>>

\* flush, on a tick or because the batch is full; a stopped client only releases.
Flush ==
  /\ pc = "select"
  /\ batch # <<>>
  /\ pc' \in {"build", "release"}
  /\ UNCHANGED <<pool, event, array, builder, events, held, queue, batch, added,
                 payload, retryQueue, sent>>

\* The loop of buildPayload
Add ==
  /\ pc = "build"
  /\ added < Len(batch)
  /\ add(batch[added + 1])
  /\ added' = added + 1
  /\ UNCHANGED <<pool, event, array, events, held, queue, batch, pc, payload,
                 retryQueue, sent>>

\* buildPayload returns and its builder is gone.
Build ==
  /\ pc = "build"
  /\ added = Len(batch)
  /\ payload' = build
  /\ newBatchBuilder
  /\ added' = 0
  /\ pc' = "send"
  /\ UNCHANGED <<pool, event, array, events, held, queue, batch, retryQueue, sent>>

\* Mutant: the fraction is cut off.
Round_Down(v) == v \div Scale

\* math.Round: to the nearest integer, halves away from zero.
Round(v) == IF v >= 0 THEN (2 * v + Scale) \div (2 * Scale)
                      ELSE -((Scale - 2 * v) \div (2 * Scale))

\* The lines encodeLinePayloadV4 writes
Rounded(lines) ==
  [i \in 1..Len(lines) |-> [lines[i] EXCEPT !.value = Round(@)]]

\* What the ingester reads for series x
Wire(p, x) == SumOfLines(Rounded(p.counters), Lines(p, x))

\* One line for a series that was aggregated, else a line for each event.
LineBudget(p, x) == IF x \in p.aggregated THEN 1 ELSE p.recorded.count[x]

SendOK ==
  /\ pc = "send"
  /\ sent' = [x \in Series |->
                [wire  |-> sent[x].wire + Wire(payload, x),
                 exact |-> sent[x].exact + payload.recorded.sum[x],
                 lines |-> sent[x].lines + LineBudget(payload, x)]]
  /\ payload' = NoPayload
  /\ pc' = "release"
  /\ UNCHANGED <<pool, event, array, builder, events, held, queue, batch, added,
                 retryQueue>>

\* The send failed or was deferred: the payload waits, or is given up.
SendFail ==
  /\ pc = "send"
  /\ \/ /\ Len(retryQueue) < RetryQueueSize
        /\ retryQueue' = Append(retryQueue, payload)
     \/ UNCHANGED retryQueue
  /\ payload' = NoPayload
  /\ pc' = "release"
  /\ UNCHANGED <<pool, event, array, builder, events, held, queue, batch, added,
                 sent>>

\* The end of run's flush; after a retry there is nothing to release.
Release ==
  /\ pc = "release"
  /\ releaseEvents(batch)
  /\ batch' = <<>>
  /\ pc' = "select"
  /\ UNCHANGED <<builder, events, held, queue, added, payload, retryQueue, sent>>

\* A pass of flushRetryQueue, which follows a flush.
Resend ==
  /\ pc = "select"
  /\ batch = <<>>
  /\ retryQueue # <<>>
  /\ payload' = Head(retryQueue)
  /\ retryQueue' = Tail(retryQueue)
  /\ pc' = "send"
  /\ UNCHANGED <<pool, event, array, builder, events, held, queue, batch, added,
                 sent>>

\* Every event of the bound is settled.
Idle == /\ events = MaxEvents /\ held = <<>> /\ queue = <<>> /\ batch = <<>>
        /\ pc = "select" /\ retryQueue = <<>>
        /\ UNCHANGED vars

Next ==
  \/ \E o \in Objects, x \in Series, ev \in Recordings : Borrow(o, x, ev)
  \/ Enqueue \/ Receive \/ Absorb \/ Flush \/ Add \/ Build \/ SendOK \/ SendFail
  \/ Release \/ Resend \/ Idle

Spec == Init /\ [][Next]_vars

-----------------------------------------------------------------------------
(* Properties                                                              *)

Occurrences(o, s) == Cardinality({i \in 1..Len(s) : s[i] = o})

\* An event object has one owner at a time: it lies in the pool once, or is with
\* one caller, or in the queue, or in the batch, also when the queue was full, a
\* total was absorbed or a flush found the client stopped; two owners would fill
\* one event with two calls (event.go:34-63, client.go:323-352).
OneOwner ==
  \A o \in Objects :
    pool[o] + Occurrences(o, held) + Occurrences(o, queue)
      + Occurrences(o, batch) = 1

\* Nothing recorded is lost, doubled or put on another series, also when series
\* share a hash or the aggregation is full (batch_builder.go:54-110); and a
\* payload that is being sent or waits for its retry still says what was recorded,
\* although its events are back in the pool and filled by other calls
\* (event.go:35-46, batch_builder.go:43-92).
PayloadConserved ==
  /\ Conserved(build)
  /\ pc = "send" => Conserved(payload)
  /\ \A i \in 1..Len(retryQueue) : Conserved(retryQueue[i])

\* What the ingester counts of a series stays within half a unit, per delivered
\* batch, of what was recorded: rounding happens once per aggregated line and not
\* per event, and only beyond the cap on series once per event
\* (line_protocol_v4.go:76, batch_builder.go:54-93).
RoundingBounded ==
  \A x \in Series :
    LET error == Scale * sent[x].wire - sent[x].exact IN
      /\ 2 * error <= Scale * sent[x].lines
      /\ -2 * error <= Scale * sent[x].lines

=============================================================================
