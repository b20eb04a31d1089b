------------------------- MODULE MCValueRateLimiter -------------------------
(***************************************************************************)
(* Instances of ValueRateLimiter for TLC.                                  *)
(***************************************************************************)
EXTENDS ValueRateLimiter

CONSTANTS a, b, c

MCThreads == {a, b, c}
TwoSeconds == 1..2

=============================================================================
