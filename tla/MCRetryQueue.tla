---------------------------- MODULE MCRetryQueue ----------------------------
(***************************************************************************)
(* Instances of RetryQueue for TLC, with the delays of the code.           *)
(***************************************************************************)
EXTENDS RetryQueue, Backoff

MCRetryDelays == [n \in 1..RetryMaxAttempts |-> retryDelay(n)]
MCBackoffDelays == [n \in 1..BackoffCap |-> clientBackoffDelay(n)]

=============================================================================
