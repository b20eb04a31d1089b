----------------------------- MODULE MCPipeline -----------------------------
(***************************************************************************)
(* Instances of Pipeline for TLC.                                          *)
(***************************************************************************)
EXTENDS Pipeline, TLC

CONSTANTS a, b, c, h1, h2, u1, o1, o2, o3

MCObjects == {o1, o2, o3}
MCSeries == {a, b, c}
MCHashes == {h1, h2}

\* Two series collide.
MCHash == [x \in MCSeries |-> IF x = c THEN h2 ELSE h1]

\* Three quarters of a unit, and half a unit back.
MCDeltas == {3, -2}

\* The value of a sample
MCSamples == {5}

Symmetry == Permutations(MCObjects) \cup Permutations({a, b})

=============================================================================
