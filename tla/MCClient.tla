------------------------------ MODULE MCClient ------------------------------
(***************************************************************************)
(* Instances of Client for TLC.  A unit of time is defaultRetryBaseDelay.  *)
(***************************************************************************)
EXTENDS Client, Backoff

CONSTANTS p, x, y, s

MCClosers == {x, y}
MCSeries == {s}

\* Every call is a counter: the runs about batches, retries and Close.
CounterCalls == {[typ |-> "counter", series |-> s, value |-> 1]}

\* Totals that rise, repeat and fall back, beside counters.
MixedCalls == CounterCalls \cup
  {[typ |-> "total", series |-> s, value |-> v] : v \in 1..2}

\* The delays of the code, with the caps and the jitter scaled down
MCRetryDelays == [n \in 1..RetryMaxAttempts |-> retryDelay(n)]
MCBackoffDelays == [n \in 1..BackoffCap |-> clientBackoffDelay(n)]

\* The delays of the code in seconds: a power of two below the cap, then the cap,
\* which need not be one.
InSeconds ==
  INSTANCE Backoff WITH RetryBaseDelay <- 1, RetryMaxDelay <- 8, RetryJitter <- 1,
                        ClientBackoffMaxDelay <- 30, ClientBackoffJitter <- 5

ASSUME DelaysCapped ==
  \A n \in 1..20, max \in {8, 30} :
    InSeconds!Doubled(n, max) = IF 2^(n - 1) <= max THEN 2^(n - 1) ELSE max

OneCaller == {p}
OneCloser == {x}

=============================================================================
