----------------------------- MODULE RetryQueue -----------------------------
(***************************************************************************)
(* The worker of client.go under calls that never stop.  Client bounds the *)
(* calls, and with them the batches that come before a retry; here batches *)
(* have no identity but one, called mine, so that fresh ones may follow    *)
(* each other for ever, in every tick and ahead of every retry pass.       *)
(*                                                                         *)
(* The client is neither closed nor stopped (Client has both).  Time is    *)
(* relative, as in Client.                                                 *)
(***************************************************************************)
EXTENDS Naturals, Sequences

CONSTANTS
  RetryQueueSize,      \* defaultRetryQueueSize
  RetryFlushMaxSends,  \* defaultRetryFlushMaxSends
  RetryMaxAttempts,    \* defaultRetryMaxAttempts
  RetryDelays,         \* attempt -> the delays retryDelay may return
  BackoffCap,          \* attempt at which clientBackoffDelay stops growing
  BackoffDelays        \* attempt -> the delays clientBackoffDelay may return

ASSUME RetryQueueAssumption ==
  /\ RetryQueueSize \in Nat \ {0}
  /\ RetryFlushMaxSends \in Nat \ {0}
  /\ RetryMaxAttempts \in Nat \ {0}
  /\ RetryDelays \in [1..RetryMaxAttempts -> SUBSET Nat]
  /\ BackoffCap \in Nat \ {0}
  /\ BackoffDelays \in [1..BackoffCap -> SUBSET Nat]

VARIABLES
  pc,          \* "select", "pass", "gate" or "transport", see Client
  ret,         \* where the worker continues once sendPayload returns
  cur,         \* the payload sendPayload is working on
  retryQueue,
  pass,        \* flushRetryQueue: the index i and the sends it has left
  transientBackoffAttempt,
  nextSendAttempt,
  fate         \* of mine: "none" yet, "open", "delivered" or "lost"

backoff == <<transientBackoffAttempt, nextSendAttempt>>
vars == <<pc, ret, cur, retryQueue, pass, transientBackoffAttempt,
          nextSendAttempt, fate>>

NoPayload == [mine |-> FALSE, attempt |-> 0]
NoPass == [i |-> 1, left |-> 0]

Init ==
  /\ pc = "select"
  /\ ret = "select"
  /\ cur = NoPayload
  /\ retryQueue = <<>>
  /\ pass = NoPass
  /\ transientBackoffAttempt = 0
  /\ nextSendAttempt = 0
  /\ fate = "none"

\* sendPayload of a fresh batch, any one of which is mine.
Flush(next) ==
  /\ pc' = "gate"
  /\ ret' = next
  /\ \E mine \in BOOLEAN :
       /\ mine => fate = "none"
       /\ cur' = [mine |-> mine, attempt |-> 1]
       /\ fate' = IF mine THEN "open" ELSE fate

\* A batch became full between two ticks: it is sent, no retry pass follows.
FullBatch ==
  /\ pc = "select"
  /\ Flush("select")
  /\ UNCHANGED <<retryQueue, pass, backoff>>

\* Mutant: the ticker turns to the retries only when it has no fresh batch.
Tick_PassWhenIdle ==
  /\ pc = "select"
  /\ \/ Flush("select")
     \/ pc' = "tickPass" /\ UNCHANGED <<ret, cur, fate>>
  /\ UNCHANGED <<retryQueue, pass, backoff>>

\* case <-ticker.C: a batch that was collected goes first, then the retries.
Tick ==
  /\ pc = "select"
  /\ \/ Flush("tickPass")
     \/ pc' = "tickPass" /\ UNCHANGED <<ret, cur, fate>>
  /\ UNCHANGED <<retryQueue, pass, backoff>>

\* The prologue of flushRetryQueue
PassBegin ==
  /\ pc = "tickPass"
  /\ pc' = "pass"
  /\ pass' = [i |-> 1, left |-> IF Len(retryQueue) > RetryFlushMaxSends
                                  THEN RetryFlushMaxSends ELSE Len(retryQueue)]
  /\ UNCHANGED <<ret, cur, retryQueue, backoff, fate>>

\* Indices the loop may still pick: not before i, and due
DueIndices == {j \in pass.i..Len(retryQueue) : retryQueue[j].nextAttempt = 0}

Without(s, j) == [k \in 1..(Len(s) - 1) |-> IF k < j THEN s[k] ELSE s[k + 1]]

\* One turn of the loop: the first due item leaves the queue for sendPayload.
PassPick ==
  /\ pc = "pass"
  /\ pass.left > 0
  /\ \E j \in DueIndices :
       /\ \A k \in DueIndices : j <= k
       /\ retryQueue' = Without(retryQueue, j)
       /\ cur' = [mine |-> retryQueue[j].mine,
                  attempt |-> retryQueue[j].attempts + 1]
       /\ pass' = [i |-> j, left |-> pass.left - 1]
  /\ pc' = "gate"
  /\ ret' = "pass"
  /\ UNCHANGED <<backoff, fate>>

PassEnd ==
  /\ pc = "pass"
  /\ pass.left = 0 \/ DueIndices = {}
  /\ pc' = "select"
  /\ pass' = NoPass
  /\ UNCHANGED <<ret, cur, retryQueue, backoff, fate>>

\* What has become of mine when the payload at hand comes to this end
Settled(end) == fate' = IF cur.mine THEN end ELSE fate

\* enqueueRetryAt
enqueueRetryAt(attempts, nextAttempt) ==
  IF attempts >= RetryMaxAttempts \/ Len(retryQueue) >= RetryQueueSize
    THEN /\ Settled("lost")
         /\ UNCHANGED retryQueue
    ELSE /\ retryQueue' = Append(retryQueue,
              [mine |-> cur.mine, attempts |-> attempts,
               nextAttempt |-> nextAttempt])
         /\ UNCHANGED fate

\* sendPayload returns to its caller.
Return == pc' = ret /\ cur' = NoPayload

\* deferForClientBackoff: the attempt is not counted.
Defer ==
  /\ pc = "gate"
  /\ nextSendAttempt > 0
  /\ enqueueRetryAt(cur.attempt - 1, nextSendAttempt)
  /\ Return
  /\ UNCHANGED <<ret, pass, backoff>>

Send ==
  /\ pc = "gate"
  /\ nextSendAttempt = 0
  /\ pc' = "transport"
  /\ UNCHANGED <<ret, cur, retryQueue, pass, backoff, fate>>

\* Send returned nil: resetTransientBackoff.
SendOK ==
  /\ pc = "transport"
  /\ transientBackoffAttempt' = 0
  /\ nextSendAttempt' = 0
  /\ Settled("delivered")
  /\ Return
  /\ UNCHANGED <<ret, retryQueue, pass>>

\* Send returned an error for which shouldRetryTransport holds.
SendTransient ==
  /\ pc = "transport"
  /\ transientBackoffAttempt' =
       IF transientBackoffAttempt < BackoffCap THEN transientBackoffAttempt + 1
                                               ELSE BackoffCap
  /\ nextSendAttempt' \in BackoffDelays[transientBackoffAttempt']
  /\ \E d \in RetryDelays[cur.attempt] : enqueueRetryAt(cur.attempt, d)
  /\ Return
  /\ UNCHANGED <<ret, pass>>

\* Send returned any other error, but none that disables the client.
SendFatal ==
  /\ pc = "transport"
  /\ Settled("lost")
  /\ Return
  /\ UNCHANGED <<ret, retryQueue, pass, backoff>>

Less(n) == IF n > 0 THEN n - 1 ELSE 0

\* One unit of time passes.
Elapse ==
  /\ nextSendAttempt > 0 \/ \E i \in 1..Len(retryQueue) :
                              retryQueue[i].nextAttempt > 0
  /\ nextSendAttempt' = Less(nextSendAttempt)
  /\ retryQueue' = [i \in 1..Len(retryQueue) |->
                      [retryQueue[i] EXCEPT !.nextAttempt = Less(@)]]
  /\ UNCHANGED <<pc, ret, cur, pass, transientBackoffAttempt, fate>>

WorkerStep == \/ PassBegin \/ PassPick \/ PassEnd \/ Defer \/ Send
              \/ SendOK \/ SendTransient \/ SendFatal

Next == \/ FullBatch \/ Tick
        \/ PassBegin \/ PassPick \/ PassEnd
        \/ Defer \/ Send \/ SendOK \/ SendTransient \/ SendFatal
        \/ Elapse

(***************************************************************************)
(* The ticker is ready again and again, so the select takes it: SF.  The   *)
(* worker moves on once it is out of the select, Transport.Send has a      *)
(* deadline, and time passes: WF.  No fresh batch is obliged, or absent.   *)
(***************************************************************************)
Spec == /\ Init /\ [][Next]_vars
        /\ SF_vars(Tick) /\ WF_vars(WorkerStep) /\ WF_vars(Elapse)

-----------------------------------------------------------------------------
(* Properties                                                              *)

\* From some time on no send fails transiently.
Recovered == <>[][~SendTransient]_vars

\* A recovery reaches every batch: once sends stop failing transiently, every
\* batch that waits for a retry is sent or given up, although fresh batches go
\* first in every tick, the backoff of the outage still defers the first of them
\* and a pass makes one send.  An outage that goes on is another matter: then the
\* fresh batches of the ticks take the gate whenever it opens, and the retries
\* behind them are deferred, uncounted (client.go:336-338, 480-506, 558-582).
RecoveryReachesAll ==
  Recovered => (fate = "open" ~> fate \in {"delivered", "lost"})

=============================================================================
