-------------------------- MODULE MCMongoCollector --------------------------
(***************************************************************************)
(* Instances of MongoCollector for TLC.                                    *)
(***************************************************************************)
EXTENDS MongoCollector

\* The first instance takes its time to answer.
FirstSlow == [i \in 1..N |-> IF i = 1 THEN 1 ELSE 0]

=============================================================================
