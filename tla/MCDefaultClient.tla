-------------------------- MODULE MCDefaultClient --------------------------
(***************************************************************************)
(* Instances of DefaultClient for TLC.                                     *)
(***************************************************************************)
EXTENDS DefaultClient

CONSTANTS i1, i2, g1, g2, k1, k2

TwoIniters == {i1, i2}
MCCallers == {g1, g2}
OneCaller == {g1}
MCClosers == {k1, k2}

=============================================================================
