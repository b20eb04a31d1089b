-------------------------- MODULE MCHTTPTransport --------------------------
(***************************************************************************)
(* Instances of HTTPTransport for TLC.                                     *)
(***************************************************************************)
EXTENDS HTTPTransport

CONSTANTS w1, w2, a, b

MCSenders == {w1, w2}
MCSeries == {a, b}

\* A single series, and a payload that repeats one and brings two.
MCPayloads == {<<a>>, <<b, a, b>>}

=============================================================================
