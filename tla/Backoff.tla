------------------------------ MODULE Backoff ------------------------------
(***************************************************************************)
(* The delays of client.go, in whole units of time: retryDelay, how long a *)
(* batch waits after its n-th attempt, and clientBackoffDelay, how long    *)
(* the whole client does after its n-th failure in a row.                  *)
(***************************************************************************)
EXTENDS Naturals

CONSTANTS
  RetryBaseDelay,         \* defaultRetryBaseDelay
  RetryMaxDelay,          \* defaultRetryMaxDelay
  RetryJitter,            \* defaultRetryJitterWindow: the jitter is below it
  ClientBackoffMaxDelay,  \* defaultClientBackoffMaxDelay
  ClientBackoffJitter     \* defaultClientBackoffJitterWindow

ASSUME BackoffAssumption ==
  /\ RetryBaseDelay \in Nat \ {0}
  /\ RetryMaxDelay \in Nat /\ ClientBackoffMaxDelay \in Nat
  /\ RetryJitter \in Nat /\ ClientBackoffJitter \in Nat

\* The loop both functions share: it stops doubling at the cap, so that no
\* number of failures overflows the delay.
Doubled(attempt, max) ==
  LET delay[n \in 1..attempt] ==
        IF n = 1 THEN RetryBaseDelay
        ELSE IF delay[n - 1] >= max THEN delay[n - 1]
        ELSE IF 2 * delay[n - 1] >= max THEN max
        ELSE 2 * delay[n - 1]
  IN  delay[attempt]

\* The delays with the jitter, which is time.Now modulo its window
retryDelay(attempt) ==
  {Doubled(attempt, RetryMaxDelay) + j : j \in 0..RetryJitter}

clientBackoffDelay(attempt) ==
  {Doubled(attempt, ClientBackoffMaxDelay) + j : j \in 0..ClientBackoffJitter}

=============================================================================
