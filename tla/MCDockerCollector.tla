------------------------- MODULE MCDockerCollector -------------------------
(***************************************************************************)
(* Instances of DockerCollector for TLC.                                   *)
(***************************************************************************)
EXTENDS DockerCollector

CONSTANTS k1, k2, k3, web, db, w1, w2

MCContainers == {k1, k2, k3}
TwoContainers == {k1, k2}
MCServices == {web, db}
MCWorkers == {w1, w2}

\* A service each, and a container without a label.
OneEach == [k \in MCContainers |->
              CASE k = k1 -> web [] k = k2 -> db [] OTHER -> NoService]

\* Two replicas of a service.
Replicas == [k \in TwoContainers |-> web]

\* One container with traffic, to be followed over its restarts.
FirstBusy == [k \in MCContainers |-> IF k = k1 THEN 2 ELSE 0]

BothBusy == [k \in TwoContainers |-> 1]

=============================================================================
