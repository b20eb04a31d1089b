---------------------------- MODULE HostMetrics ----------------------------
(***************************************************************************)
(* What collectors make of the counters of the host.  The network, disk    *)
(* and nginx collectors record a counter as a Total and leave the          *)
(* difference to the client's worker (applyTotal); the CPU collector keeps *)
(* the previous sample itself and records shares of the difference as a    *)
(* value, which the client may turn away.                                  *)
(*                                                                         *)
(* All collectors read one counter: each has series and samples of its     *)
(* own, so nothing relates two of them.  Counters that fall back are in    *)
(* DockerCollector.                                                        *)
(***************************************************************************)
EXTENDS Naturals

CONSTANTS
  Totalled,    \* collectors that record totals
  Sampled,     \* collectors that keep a previous sample
  MaxWork,     \* bound: how far the counter counts
  NoSample

ASSUME MetricsAssumption ==
  /\ Totalled \cap Sampled = {}
  /\ MaxWork \in Nat
  /\ NoSample \notin Nat

VARIABLES
  work,        \* the counter
  base,        \* collector -> the worker's total of its series, or its prev
  counted,     \* collector -> sum of the differences that were recorded
  first        \* history: collector -> its first sample

metrics == <<work, base, counted, first>>

MetricsInit ==
  /\ work = 0
  /\ base = [c \in Totalled \cup Sampled |-> NoSample]
  /\ counted = [c \in Totalled \cup Sampled |-> 0]
  /\ first = base

\* The host works.
Work ==
  /\ work < MaxWork
  /\ work' = work + 1
  /\ UNCHANGED <<base, counted, first>>

\* cpu_usage.go and applyTotal alike: no difference without a previous sample,
\* none for a counter that has fallen.
diffUint(a, b) == IF a # NoSample /\ b >= a THEN b - a ELSE 0

\* The sample becomes the one the next is compared with.
Remember(c) ==
  /\ base' = [base EXCEPT ![c] = work]
  /\ first' = [first EXCEPT ![c] = IF @ = NoSample THEN work ELSE @]

Nothing == UNCHANGED <<base, counted, first>>

\* Mutant: the worker's baseline moves although the queue was full.
CollectTotal_Dropped(c) ==
  /\ Remember(c)
  /\ \/ counted' = [counted EXCEPT ![c] = @ + diffUint(base[c], work)]
     \/ UNCHANGED counted
  /\ UNCHANGED work

\* Collect of net.go, diskio.go and nginx/collector.go: the Total reaches the
\* worker, or the queue is full and it is as if the sample had not been taken.
CollectTotal(c) ==
  /\ \/ /\ Remember(c)
        /\ counted' = [counted EXCEPT ![c] = @ + diffUint(base[c], work)]
     \/ Nothing
  /\ UNCHANGED work

\* Mutant: the previous sample is kept when there is something to report.
CollectUsage_KeepsPrev(c) ==
  /\ IF diffUint(base[c], work) = 0
       THEN Remember(c) /\ UNCHANGED counted
       ELSE /\ counted' = [counted EXCEPT ![c] = @ + diffUint(base[c], work)]
            /\ UNCHANGED <<base, first>>
  /\ UNCHANGED work

\* Collect of cpu_usage.go; its value may be turned away, by the rate limiter or
\* because the queue is full, and then that difference is gone.
CollectUsage(c) ==
  /\ Remember(c)
  /\ \/ counted' = [counted EXCEPT ![c] = @ + diffUint(base[c], work)]
     \/ UNCHANGED counted
  /\ UNCHANGED work

\* A collection of c that does not fail before it has read the counter
Collect(c) ==
  \/ c \in Totalled /\ CollectTotal(c)
  \/ c \in Sampled /\ CollectUsage(c)
  \/ c \notin Totalled \cup Sampled /\ UNCHANGED metrics

-----------------------------------------------------------------------------
(* Properties                                                              *)

\* Totals catch up: however many collections were skipped, failed or lost their
\* sample to a full queue, what a series has counted is what happened between its
\* first and its latest sample, neither more nor less (net.go:32-62,
\* diskio.go:31-70, client.go:380-406).  It is counted when applyTotal has the
\* difference; what becomes of its batch is the client's matter.  CPU time is
\* reported once at most (cpu_usage.go:32-88).
TotalsCatchUp ==
  \A c \in Totalled \cup Sampled :
    IF base[c] = NoSample THEN counted[c] = 0
    ELSE /\ first[c] + counted[c] <= base[c]
         /\ c \in Totalled => first[c] + counted[c] = base[c]

=============================================================================
