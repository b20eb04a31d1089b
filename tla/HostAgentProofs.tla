--------------------------- MODULE HostAgentProofs ---------------------------
(***************************************************************************)
(* Proofs about the host metrics agent (HostAgent.tla) for every set of    *)
(* collectors, every number of slots and everything it may meet at         *)
(* startup.                                                                *)
(***************************************************************************)
EXTENDS HostAgent, FiniteSetTheorems, SequenceTheorems, TLAPS

-----------------------------------------------------------------------------
(* The runner's inductive invariant                                        *)

\* Every slot is held by a collection in progress.
SlotInv == IsFiniteSet(Collecting) /\ sem = Cardinality(Collecting)

\* A collector waits at most once, only while all slots are taken, and the
\* channel's queue knows exactly the ones that wait.
WaitInv ==
  /\ waiters # <<>> => sem = MaxConcurrency
  /\ \A i, j \in 1..Len(waiters) : waiters[i] = waiters[j] => i = j
  /\ \A i \in 1..Len(waiters) : pc[waiters[i]] = "wait"
  /\ \A c \in Collectors :
       pc[c] = "wait" => \E i \in 1..Len(waiters) : waiters[i] = c

\* Goroutines exist between Start and the end of wg.Wait only, and only for the
\* collectors that are enabled.
LifeInv ==
  /\ main \in {"config", "probe"} => \A c \in Collectors : pc[c] = "off"
  /\ main = "run" => \A c \in Collectors \ enabled : pc[c] = "off"
  /\ QuietBeforeClose

RunnerInv == TypeOK /\ SlotInv /\ WaitInv /\ LifeInv

LEMMA RunnerInit == Init => RunnerInv
<1> SUFFICES ASSUME Init PROVE RunnerInv
  OBVIOUS
<1>1. Collecting = {}
  BY DEF Init, Collecting
<1>2. SlotInv
  BY <1>1, FS_EmptySet DEF Init, SlotInv
<1>3. TypeOK
  <2>1. enabled \subseteq Collectors
    BY DEF Init, Collectors
  <2>2. sem \in 0..MaxConcurrency /\ waiters \in Seq(Collectors)
    BY EmptySeq, RunnerAssumption DEF Init
  <2>3. QED
    BY <2>1, <2>2 DEF Init, TypeOK
<1>4. WaitInv
  BY EmptySeq DEF Init, WaitInv
<1>5. LifeInv
  BY DEF Init, LifeInv, QuietBeforeClose
<1>6. QED
  BY <1>2, <1>3, <1>4, <1>5 DEF RunnerInv

-----------------------------------------------------------------------------
(* Slots and waiting                                                       *)

\* A step that moves nobody in or out of a slot or the queue.
LEMMA SlotFrame ==
  ASSUME TypeOK, SlotInv, WaitInv, UNCHANGED <<sem, waiters>>,
         \A c \in Collectors : /\ pc[c] = "collect" <=> pc'[c] = "collect"
                               /\ pc[c] = "wait" <=> pc'[c] = "wait"
  PROVE  SlotInv' /\ WaitInv'
<1>1. Collecting' = Collecting
  BY DEF Collecting
<1>2. \A i \in 1..Len(waiters) : waiters[i] \in Collectors
  BY ElementOfSeq DEF TypeOK
<1>3. QED
  BY <1>1, <1>2 DEF SlotInv, WaitInv

\* A collector that is neither collecting nor waiting reaches collectOnce
\* (runner.go:115-125).
LEMMA CollectOnce ==
  ASSUME TypeOK, SlotInv, WaitInv, NEW c \in Collectors,
         pc[c] \in {"start", "select"}, collectOnce(c)
  PROVE  /\ SlotInv' /\ WaitInv'
         /\ sem' \in 0..MaxConcurrency /\ waiters' \in Seq(Collectors)
         /\ pc' \in [Collectors -> {"off", "start", "select", "wait", "collect",
                                    "returned"}]
<1>1. /\ sem \in 0..MaxConcurrency /\ MaxConcurrency \in Nat
      /\ waiters \in Seq(Collectors) /\ Len(waiters) \in Nat
      /\ pc \in [Collectors -> {"off", "start", "select", "wait", "collect",
                                "returned"}]
      /\ \A i \in 1..Len(waiters) : waiters[i] \in Collectors
  BY RunnerAssumption, LenProperties, ElementOfSeq DEF TypeOK
<1>2. CASE sem < MaxConcurrency /\ sem' = sem + 1 /\ UNCHANGED waiters
           /\ pc' = [pc EXCEPT ![c] = "collect"]
  <2>1. Collecting' = Collecting \cup {c} /\ c \notin Collecting
    BY <1>1, <1>2 DEF Collecting
  <2>2. SlotInv'
    BY <1>2, <2>1, FS_AddElement DEF SlotInv
  <2>3. WaitInv'
    BY <1>1, <1>2 DEF WaitInv
  <2>4. QED
    BY <1>1, <1>2, <2>2, <2>3
<1>3. CASE sem >= MaxConcurrency /\ UNCHANGED sem
           /\ waiters' = Append(waiters, c) /\ pc' = [pc EXCEPT ![c] = "wait"]
  <2>1. Collecting' = Collecting
    BY <1>1, <1>3 DEF Collecting
  <2>2. /\ waiters' \in Seq(Collectors)
        /\ Len(waiters') = Len(waiters) + 1
        /\ \A i \in 1..Len(waiters) : waiters'[i] = waiters[i]
        /\ waiters'[Len(waiters) + 1] = c
    BY <1>1, <1>3, AppendProperties
  <2>3. \A i \in 1..Len(waiters') : i \in 1..Len(waiters) \/ i = Len(waiters) + 1
    BY <1>1, <2>2
  <2>4. \A i \in 1..Len(waiters) : waiters[i] # c
    BY DEF WaitInv
  <2>5. /\ \A i, j \in 1..Len(waiters') : waiters'[i] = waiters'[j] => i = j
        /\ \A i \in 1..Len(waiters') : pc'[waiters'[i]] = "wait"
    BY <1>1, <1>3, <2>2, <2>3, <2>4 DEF WaitInv
  <2>6. ASSUME NEW d \in Collectors, pc'[d] = "wait"
        PROVE  \E i \in 1..Len(waiters') : waiters'[i] = d
    <3>1. CASE d = c
      <4>1. Len(waiters) + 1 \in 1..Len(waiters')
        BY <1>1, <2>2
      <4>2. QED
        BY <2>2, <3>1, <4>1
    <3>2. CASE d # c
      <4>1. pc[d] = "wait"
        BY <1>1, <1>3, <2>6, <3>2
      <4>2. PICK i \in 1..Len(waiters) : waiters[i] = d
        BY <4>1 DEF WaitInv
      <4>3. i \in 1..Len(waiters')
        BY <1>1, <2>2
      <4>4. QED
        BY <2>2, <4>2, <4>3
    <3>3. QED
      BY <3>1, <3>2
  <2>7. sem' = MaxConcurrency
    BY <1>1, <1>3
  <2>8. QED
    BY <1>1, <1>3, <2>1, <2>2, <2>5, <2>6, <2>7 DEF SlotInv, WaitInv
<1>4. CASE UNCHANGED <<sem, waiters>> /\ pc' = [pc EXCEPT ![c] = "select"]
  BY <1>1, <1>4, SlotFrame
<1>5. QED
  BY <1>2, <1>3, <1>4 DEF collectOnce

\* A collection ends and its slot is free, or goes to the collector that has
\* waited longest (runner.go:125).
LEMMA FinishSlot ==
  ASSUME TypeOK, SlotInv, WaitInv, NEW c \in Collectors, Finish(c)
  PROVE  /\ SlotInv' /\ WaitInv'
         /\ sem' \in 0..MaxConcurrency /\ waiters' \in Seq(Collectors)
<1>1. /\ sem \in 0..MaxConcurrency /\ MaxConcurrency \in Nat
      /\ waiters \in Seq(Collectors) /\ Len(waiters) \in Nat
      /\ pc \in [Collectors -> {"off", "start", "select", "wait", "collect",
                                "returned"}]
      /\ \A i \in 1..Len(waiters) : waiters[i] \in Collectors
  BY RunnerAssumption, LenProperties, ElementOfSeq DEF TypeOK
<1>2. c \in Collecting /\ pc[c] = "collect"
  BY DEF Finish, Collecting
<1>3. /\ IsFiniteSet(Collecting \ {c})
      /\ Cardinality(Collecting \ {c}) = sem - 1
      /\ Cardinality(Collecting \ {c}) \in Nat
  BY <1>2, FS_RemoveElement, FS_CardinalityType DEF SlotInv
<1>4. CASE waiters = <<>>
  <2>1. /\ sem' = sem - 1 /\ waiters' = waiters
        /\ \A d \in Collectors : pc'[d] = IF d = c THEN "select" ELSE pc[d]
    BY <1>4 DEF Finish, Return
  <2>2. Collecting' = Collecting \ {c}
    BY <2>1 DEF Collecting
  <2>3. SlotInv' /\ sem' \in 0..MaxConcurrency
    BY <1>1, <1>3, <2>1, <2>2 DEF SlotInv
  <2>4. WaitInv'
    BY <1>1, <1>2, <1>4, <2>1 DEF WaitInv
  <2>5. QED
    BY <1>1, <2>1, <2>3, <2>4
<1>5. CASE waiters # <<>>
  <2> DEFINE h == Head(waiters)
  <2>1. /\ sem' = sem /\ waiters' = Tail(waiters)
        /\ \A d \in Collectors : pc'[d] = IF d = c THEN "select"
                                          ELSE IF d = h THEN "collect" ELSE pc[d]
    BY <1>5 DEF Finish, Return
  <2>2. /\ Len(waiters) \in Nat \ {0} /\ h = waiters[1] /\ h \in Collectors
        /\ waiters' \in Seq(Collectors) /\ Len(waiters') = Len(waiters) - 1
        /\ \A i \in 1..(Len(waiters) - 1) : waiters'[i] = waiters[i + 1]
    BY <1>1, <1>5, <2>1, HeadTailProperties, EmptySeq
  <2>3. h # c /\ pc[h] = "wait" /\ h \notin Collecting
    <3>1. 1 \in 1..Len(waiters)
      BY <2>2
    <3>2. QED
      BY <1>2, <2>2, <3>1 DEF WaitInv, Collecting
  <2> HIDE DEF h
  <2>4. Collecting' = (Collecting \ {c}) \cup {h} /\ h \notin Collecting \ {c}
    BY <2>1, <2>2, <2>3 DEF Collecting
  <2>5. SlotInv'
    <3> DEFINE others == Collecting \ {c}
    <3>1. IsFiniteSet(others) /\ Cardinality(others) = sem - 1 /\ h \notin others
      BY <1>3, <2>4
    <3> HIDE DEF others
    <3>2. /\ IsFiniteSet(others \cup {h})
          /\ Cardinality(others \cup {h}) = (sem - 1) + 1
      BY <3>1, FS_AddElement
    <3>3. (sem - 1) + 1 = sem
      BY <1>1
    <3>4. Collecting' = others \cup {h}
      BY <2>4 DEF others
    <3>5. QED
      BY <2>1, <3>2, <3>3, <3>4 DEF SlotInv
  <2>6. /\ \A i \in 1..(Len(waiters) - 1) : i + 1 \in 1..Len(waiters) /\ i + 1 # 1
        /\ \A i, j \in 1..(Len(waiters) - 1) : i + 1 = j + 1 => i = j
        /\ 1 \in 1..Len(waiters)
    BY <2>2
  <2>7. \A i, j \in 1..Len(waiters') : waiters'[i] = waiters'[j] => i = j
    BY <2>2, <2>6 DEF WaitInv
  <2>8. ASSUME NEW i \in 1..Len(waiters') PROVE pc'[waiters'[i]] = "wait"
    <3>1. /\ waiters'[i] = waiters[i + 1] /\ i + 1 \in 1..Len(waiters)
          /\ i + 1 # 1
      BY <2>2, <2>6
    <3>2. waiters[i + 1] # h /\ pc[waiters[i + 1]] = "wait"
      BY <2>2, <2>6, <3>1 DEF WaitInv
    <3>3. QED
      BY <1>1, <1>2, <2>1, <3>1, <3>2
  <2>9. ASSUME NEW d \in Collectors, pc'[d] = "wait"
        PROVE  \E i \in 1..Len(waiters') : waiters'[i] = d
    <3>1. pc[d] = "wait" /\ d # h
      BY <2>1, <2>9
    <3>2. PICK i \in 1..Len(waiters) : waiters[i] = d
      BY <3>1 DEF WaitInv
    <3>3. i - 1 \in 1..(Len(waiters) - 1) /\ (i - 1) + 1 = i
      BY <2>2, <3>1, <3>2
    <3>4. QED
      BY <2>2, <3>2, <3>3
  <2>10. WaitInv'
    BY <1>5, <2>1, <2>7, <2>8, <2>9 DEF WaitInv
  <2>11. QED
    BY <1>1, <2>1, <2>2, <2>5, <2>10
<1>6. QED
  BY <1>4, <1>5

\* A collector gives up its place in the queue (runner.go:122-124).
LEMMA SkipSlot ==
  ASSUME TypeOK, SlotInv, WaitInv, NEW c \in Collectors, Skip(c)
  PROVE  SlotInv' /\ WaitInv' /\ waiters' \in Seq(Collectors)
<1>1. /\ waiters \in Seq(Collectors) /\ Len(waiters) \in Nat
      /\ \A i \in 1..Len(waiters) : waiters[i] \in Collectors
  BY LenProperties, ElementOfSeq DEF TypeOK
<1>2. PICK k \in 1..Len(waiters) :
        waiters[k] = c /\ waiters' = Without(waiters, k)
  BY DEF Skip
<1>3. /\ UNCHANGED sem /\ pc[c] = "wait"
      /\ \A d \in Collectors : pc'[d] = IF d = c THEN "select" ELSE pc[d]
  BY DEF Skip, Return
<1> DEFINE n == Len(waiters) - 1
<1> DEFINE at(i) == IF i < k THEN i ELSE i + 1
<1>4. /\ n \in Nat
      /\ \A i \in 1..n : at(i) \in 1..Len(waiters) /\ at(i) # k
      /\ \A i, j \in 1..n : at(i) = at(j) => i = j
      /\ \A m \in 1..Len(waiters) : m # k => \E i \in 1..n : at(i) = m
  <2>1. n \in Nat
    BY <1>1, <1>2
  <2>2. \A i \in 1..n : at(i) \in 1..Len(waiters) /\ at(i) # k
    BY <1>1, <1>2
  <2>3. \A i, j \in 1..n : at(i) = at(j) => i = j
    BY <1>1, <1>2
  <2>4. ASSUME NEW m \in 1..Len(waiters), m # k PROVE \E i \in 1..n : at(i) = m
    <3>1. CASE m < k
      <4>1. m \in 1..n /\ at(m) = m
        BY <1>1, <1>2, <3>1
      <4>2. QED
        BY <4>1
    <3>2. CASE ~(m < k)
      <4>1. m - 1 \in 1..n /\ at(m - 1) = m
        BY <1>1, <1>2, <2>4, <3>2
      <4>2. QED
        BY <4>1
    <3>3. QED
      BY <3>1, <3>2
  <2>5. QED
    BY <2>1, <2>2, <2>3, <2>4
<1>5. /\ waiters' \in Seq(Collectors) /\ Len(waiters') = n
      /\ \A i \in 1..n : waiters'[i] = waiters[at(i)]
  <2>1. waiters' = [i \in 1..n |-> waiters[at(i)]]
    BY <1>2 DEF Without
  <2> HIDE DEF n, at
  <2>2. waiters' \in [1..n -> Collectors]
    BY <1>1, <1>4, <2>1
  <2>3. QED
    BY <1>4, <2>1, <2>2
<1> HIDE DEF n, at
<1>6. Collecting' = Collecting
  BY <1>3 DEF Collecting
<1>7. \A i, j \in 1..n : waiters'[i] = waiters'[j] => i = j
  BY <1>4, <1>5 DEF WaitInv
<1>8. ASSUME NEW i \in 1..n PROVE pc'[waiters'[i]] = "wait"
  <2>1. waiters'[i] = waiters[at(i)] /\ at(i) \in 1..Len(waiters) /\ at(i) # k
    BY <1>4, <1>5
  <2>2. waiters[at(i)] # c /\ pc[waiters[at(i)]] = "wait"
    BY <1>2, <2>1 DEF WaitInv
  <2>3. QED
    BY <1>1, <1>3, <2>1, <2>2
<1>9. ASSUME NEW d \in Collectors, pc'[d] = "wait"
      PROVE  \E i \in 1..n : waiters'[i] = d
  <2>1. pc[d] = "wait" /\ d # c
    BY <1>3, <1>9
  <2>2. PICK m \in 1..Len(waiters) : waiters[m] = d
    BY <2>1 DEF WaitInv
  <2>3. PICK i \in 1..n : at(i) = m
    BY <1>2, <1>4, <2>1, <2>2
  <2>4. QED
    BY <1>5, <2>2, <2>3
<1>10. waiters # <<>>
  BY <1>1, <1>2
<1>11. QED
  BY <1>3, <1>5, <1>6, <1>7, <1>8, <1>9, <1>10 DEF SlotInv, WaitInv


-----------------------------------------------------------------------------
(* The steps of the runner                                                 *)

States == {"off", "start", "select", "wait", "collect", "returned"}

\* Only a goroutine that is on its way moves: what main knows stays true.
LEMMA LifeFrame ==
  ASSUME LifeInv, UNCHANGED <<main, enabled>>,
         \A c \in Collectors : pc'[c] = pc[c] \/ pc[c] \notin {"off", "returned"}
  PROVE  LifeInv'
BY DEF LifeInv, QuietBeforeClose

\* A step of the main goroutine that leaves the collectors' goroutines alone.
LEMMA MainFrame ==
  ASSUME TypeOK, SlotInv, WaitInv, UNCHANGED <<pc, ticker, sem, waiters>>
  PROVE  SlotInv' /\ WaitInv'
BY SlotFrame

LEMMA MainStepKeeps ==
  ASSUME RunnerInv, MainStep
  PROVE  RunnerInv'
<1> USE DEF RunnerInv
<1>1. CASE \E ps \in SUBSET Probes : Configure(ps)
  <2>1. PICK ps \in SUBSET Probes : Configure(ps)
    BY <1>1
  <2>2. TypeOK'
    BY <2>1 DEF TypeOK, Configure
  <2>3. LifeInv'
    BY <2>1 DEF LifeInv, QuietBeforeClose, Configure
  <2>4. QED
    BY <2>1, <2>2, <2>3, MainFrame DEF Configure
<1>2. CASE \E p \in Probes, detected \in BOOLEAN : Probe(p, detected)
  <2>1. PICK p \in Probes, detected \in BOOLEAN : Probe(p, detected)
    BY <1>2
  <2>2. TypeOK'
    <3>1. enabled' \subseteq Collectors /\ unprobed' \subseteq Probes
      BY <2>1 DEF TypeOK, Probe, Collectors
    <3>2. QED
      BY <2>1, <3>1 DEF TypeOK, Probe
  <2>3. LifeInv'
    BY <2>1 DEF LifeInv, QuietBeforeClose, Probe
  <2>4. QED
    BY <2>1, <2>2, <2>3, MainFrame DEF Probe
<1>3. CASE Refuse
  <2>1. TypeOK' /\ LifeInv'
    BY <1>3 DEF TypeOK, LifeInv, QuietBeforeClose, Refuse
  <2>2. QED
    BY <1>3, <2>1, MainFrame DEF Refuse
<1>4. CASE Start
  <2>1. \A c \in Collectors : /\ pc[c] = "off"
                              /\ pc'[c] = IF c \in enabled THEN "start" ELSE "off"
    BY <1>4 DEF LifeInv, Start
  <2>2. TypeOK'
    BY <1>4 DEF TypeOK, Start
  <2>3. LifeInv'
    BY <1>4, <2>1 DEF LifeInv, QuietBeforeClose, Start
  <2>4. SlotInv' /\ WaitInv'
    BY <1>4, <2>1, SlotFrame DEF Start
  <2>5. QED
    BY <2>2, <2>3, <2>4
<1>5. CASE WaitAll
  <2>1. TypeOK'
    BY <1>5 DEF TypeOK, WaitAll
  <2>2. LifeInv'
    BY <1>5 DEF LifeInv, QuietBeforeClose, WaitAll
  <2>3. QED
    BY <1>5, <2>1, <2>2, MainFrame DEF WaitAll
<1>6. CASE Stopped
  <2>1. TypeOK' /\ LifeInv'
    BY <1>6 DEF TypeOK, LifeInv, QuietBeforeClose, Stopped
  <2>2. QED
    BY <1>6, <2>1, MainFrame DEF Stopped
<1>7. CASE flushAndClose
  <2>1. TypeOK' /\ LifeInv'
    BY <1>7 DEF TypeOK, LifeInv, QuietBeforeClose, flushAndClose
  <2>2. QED
    BY <1>7, <2>1, MainFrame DEF flushAndClose
<1>8. CASE \E c \in Collectors : CloseCollector(c)
  <2>1. TypeOK' /\ LifeInv'
    BY <1>8 DEF TypeOK, LifeInv, QuietBeforeClose, CloseCollector
  <2>2. QED
    BY <1>8, <2>1, MainFrame DEF CloseCollector
<1>9. QED
  BY <1>1, <1>2, <1>3, <1>4, <1>5, <1>6, <1>7, <1>8 DEF MainStep

LEMMA CollectorStepKeeps ==
  ASSUME RunnerInv, NEW c \in Collectors,
         Begin(c) \/ Finish(c) \/ Skip(c) \/ Tick(c) \/ Leave(c) \/ Fire(c)
  PROVE  RunnerInv'
<1> USE DEF RunnerInv
<1>1. /\ pc \in [Collectors -> States]
      /\ ticker \in [Collectors -> {"none", "idle", "fired"}]
  BY DEF TypeOK, States
<1>2. ASSUME pc[c] \in {"start", "select"}, collectOnce(c),
             UNCHANGED <<main, unprobed, enabled, cancelled, open, client>>,
             ticker' \in [Collectors -> {"none", "idle", "fired"}]
      PROVE  RunnerInv'
  <2>1. /\ SlotInv' /\ WaitInv' /\ sem' \in 0..MaxConcurrency
        /\ waiters' \in Seq(Collectors) /\ pc' \in [Collectors -> States]
    BY <1>2, CollectOnce DEF States
  <2>2. TypeOK'
    BY <1>2, <2>1 DEF TypeOK, States
  <2>3. \A d \in Collectors : pc'[d] = pc[d] \/ d = c
    BY <1>1, <1>2 DEF collectOnce
  <2>4. LifeInv'
    BY <1>2, <2>3, LifeFrame
  <2>5. QED
    BY <2>1, <2>2, <2>4
<1>3. CASE Begin(c)
  <2>1. CASE cancelled
    <3>1. /\ pc' = [pc EXCEPT ![c] = "select"]
          /\ ticker' = [ticker EXCEPT ![c] = "idle"]
          /\ UNCHANGED <<main, unprobed, enabled, cancelled, open, client, sem,
                         waiters>>
          /\ pc[c] = "start"
      BY <1>3, <2>1 DEF Begin
    <3>2. TypeOK'
      BY <1>1, <3>1 DEF TypeOK, States
    <3>3. SlotInv' /\ WaitInv'
      BY <1>1, <3>1, SlotFrame
    <3>4. LifeInv'
      BY <1>1, <3>1, LifeFrame
    <3>5. QED
      BY <3>2, <3>3, <3>4
  <2>2. CASE ~cancelled
    BY <1>1, <1>2, <1>3, <2>2 DEF Begin
  <2>3. QED
    BY <2>1, <2>2
<1>4. CASE Finish(c)
  <2>1. /\ SlotInv' /\ WaitInv' /\ sem' \in 0..MaxConcurrency
        /\ waiters' \in Seq(Collectors)
    BY <1>4, FinishSlot
  <2>2. \E handed : Return(c, handed) /\ \A d \in handed \cap Collectors : pc[d] = "wait"
    <3>1. CASE waiters = <<>>
      BY <1>4, <3>1 DEF Finish
    <3>2. CASE waiters # <<>>
      <4>1. pc[Head(waiters)] = "wait"
        <5>1. Head(waiters) = waiters[1] /\ 1 \in 1..Len(waiters)
          BY <3>2, LenProperties, EmptySeq DEF TypeOK
        <5>2. QED
          BY <5>1 DEF WaitInv
      <4>2. Return(c, {Head(waiters)})
        BY <1>4, <3>2 DEF Finish
      <4>3. QED
        BY <4>1, <4>2
    <3>3. QED
      BY <3>1, <3>2
  <2>3. PICK handed : /\ Return(c, handed)
                      /\ \A d \in handed \cap Collectors : pc[d] = "wait"
    BY <2>2
  <2>4. /\ pc' \in [Collectors -> States]
        /\ ticker' \in [Collectors -> {"none", "idle", "fired"}]
    BY <1>1, <2>3 DEF Return, States
  <2>5. TypeOK'
    BY <1>4, <2>1, <2>4 DEF TypeOK, Finish, States
  <2>6. \A d \in Collectors : pc'[d] = pc[d] \/ pc[d] \notin {"off", "returned"}
    BY <1>1, <1>4, <2>3 DEF Return, Finish
  <2>7. LifeInv'
    BY <1>4, <2>6, LifeFrame DEF Finish
  <2>8. QED
    BY <2>1, <2>5, <2>7
<1>5. CASE Skip(c)
  <2>1. SlotInv' /\ WaitInv' /\ waiters' \in Seq(Collectors)
    BY <1>5, SkipSlot
  <2>2. /\ pc' \in [Collectors -> States]
        /\ ticker' \in [Collectors -> {"none", "idle", "fired"}]
    BY <1>1, <1>5 DEF Skip, Return, States
  <2>3. TypeOK'
    BY <1>5, <2>1, <2>2 DEF TypeOK, Skip, States
  <2>4. \A d \in Collectors : pc'[d] = pc[d] \/ pc[d] \notin {"off", "returned"}
    BY <1>1, <1>5 DEF Skip, Return
  <2>5. LifeInv'
    BY <1>5, <2>4, LifeFrame DEF Skip
  <2>6. QED
    BY <2>1, <2>3, <2>5
<1>6. CASE Tick(c)
  BY <1>1, <1>2, <1>6 DEF Tick
<1>7. CASE Leave(c)
  <2>1. TypeOK'
    BY <1>1, <1>7 DEF TypeOK, Leave, States
  <2>2. SlotInv' /\ WaitInv'
    BY <1>1, <1>7, SlotFrame DEF Leave
  <2>3. LifeInv'
    BY <1>1, <1>7, LifeFrame DEF Leave
  <2>4. QED
    BY <2>1, <2>2, <2>3
<1>8. CASE Fire(c)
  <2>1. TypeOK'
    BY <1>1, <1>8 DEF TypeOK, Fire
  <2>2. SlotInv' /\ WaitInv'
    BY <1>8, SlotFrame DEF Fire
  <2>3. LifeInv'
    BY <1>8, LifeFrame DEF Fire
  <2>4. QED
    BY <2>1, <2>2, <2>3
<1>9. QED
  BY <1>3, <1>4, <1>5, <1>6, <1>7, <1>8

LEMMA RunnerStep == RunnerInv /\ [Next]_vars => RunnerInv'
<1> SUFFICES ASSUME RunnerInv, [Next]_vars PROVE RunnerInv'
  OBVIOUS
<1>1. CASE Signal
  <2>1. TypeOK' /\ LifeInv'
    BY <1>1 DEF RunnerInv, TypeOK, LifeInv, QuietBeforeClose, Signal
  <2>2. QED
    BY <1>1, <2>1, MainFrame DEF RunnerInv, Signal
<1>2. CASE MainStep
  BY <1>2, MainStepKeeps
<1>3. CASE \E c \in Collectors :
        Begin(c) \/ Finish(c) \/ Skip(c) \/ Tick(c) \/ Leave(c) \/ Fire(c)
  BY <1>3, CollectorStepKeeps
<1>4. CASE UNCHANGED vars
  <2>1. TypeOK' /\ LifeInv'
    BY <1>4 DEF RunnerInv, TypeOK, LifeInv, QuietBeforeClose, vars
  <2>2. QED
    BY <1>4, <2>1, MainFrame DEF RunnerInv, vars
<1>5. QED
  BY <1>1, <1>2, <1>3, <1>4 DEF Next, Exited

-----------------------------------------------------------------------------
(* The agent is a runner                                                   *)

\* Every step of the composed agent is a step of the runner or leaves it alone.
LEMMA HostStepIsRunnerStep ==
  ASSUME TypeOK, [HostNext]_hostVars
  PROVE  [Next]_vars
<1>1. CASE Signal \/ Exited
  BY <1>1 DEF Next
<1>2. CASE Startup
  BY <1>2 DEF Startup, Next, MainStep
<1>3. ASSUME NEW p \in Probes, Detect(p) PROVE Next
  <2>1. p \in {"docker", "mongo", "nginx"}
    <3>1. PICK i \in 1..3 : ProbeOrder[i] = p
      BY <1>3 DEF Detect, NextProbe
    <3>2. QED
      BY <3>1 DEF ProbeOrder
  <2>2. Detected(p) \subseteq BOOLEAN
    <3>1. CASE p = "docker"
      BY <3>1 DEF Detected
    <3>2. CASE p = "mongo"
      BY <3>2 DEF Detected
    <3>3. CASE p = "nginx"
      BY <3>3 DEF Detected
    <3>4. QED
      BY <2>1, <3>1, <3>2, <3>3
  <2>3. PICK detected \in Detected(p) : Probe(p, detected)
    BY <1>3 DEF Detect
  <2>4. detected \in BOOLEAN
    BY <2>2, <2>3
  <2>5. QED
    BY <2>3, <2>4 DEF Next, MainStep
<1>4. CASE Launch \/ Shutdown
  BY <1>4 DEF Launch, Shutdown, Next, MainStep
<1>5. CASE \E c \in Collectors : Collected(c) \/ Loop(c)
  BY <1>5 DEF Collected, Loop, Next
<1>6. CASE UNCHANGED vars
  BY <1>6
<1>7. QED
  BY <1>1, <1>2, <1>3, <1>4, <1>5, <1>6 DEF HostNext, hostVars

LEMMA HostRunnerInv == HostSpec => []RunnerInv
<1>1. HostInit => RunnerInv
  BY RunnerInit DEF HostInit
<1>2. RunnerInv /\ [HostNext]_hostVars => RunnerInv'
  BY HostStepIsRunnerStep, RunnerStep DEF RunnerInv
<1>3. QED
  BY <1>1, <1>2, PTL DEF HostSpec

\* The agent with its configuration, its probes and its counters is a runner:
\* what AgentRunner allows is never left, whatever the agent meets at startup.
THEOREM HostIsRunner == HostSpec => Spec
<1>1. HostInit => Init
  BY DEF HostInit
<1>2. RunnerInv /\ [HostNext]_hostVars => [Next]_vars
  BY HostStepIsRunnerStep DEF RunnerInv
<1>3. QED
  BY <1>1, <1>2, HostRunnerInv, PTL DEF HostSpec, Spec

\* No slot is lost or taken twice for any number of collectors and of slots:
\* whatever collections fail, panic, time out or are cancelled, a slot is taken
\* exactly as long as a collection is in progress (runner.go:115-147).
THEOREM HostSlotsAccounted == HostSpec => []SlotsAccounted
<1>1. RunnerInv => SlotsAccounted
  <2> SUFFICES ASSUME RunnerInv PROVE SlotsAccounted
    OBVIOUS
  <2>1. /\ waiters \in Seq(Collectors)
        /\ \A i \in 1..Len(waiters) : waiters[i] \in Collectors
    BY ElementOfSeq DEF RunnerInv, TypeOK
  <2>2. Elements(waiters) \subseteq {c \in Collectors : pc[c] = "wait"}
    BY <2>1 DEF RunnerInv, WaitInv, Elements
  <2>3. {c \in Collectors : pc[c] = "wait"} \subseteq Elements(waiters)
    BY DEF RunnerInv, WaitInv, Elements
  <2>4. sem <= MaxConcurrency
    BY RunnerAssumption DEF RunnerInv, TypeOK
  <2>5. QED
    BY <2>2, <2>3, <2>4 DEF RunnerInv, SlotInv, WaitInv, SlotsAccounted
<1>2. QED
  BY <1>1, HostRunnerInv, PTL

\* wg.Wait comes before the first Close: once collectors are being closed no
\* goroutine collects, waits or starts (runner.go:87-89, main.go:92-93).
THEOREM HostQuietBeforeClose == HostSpec => []QuietBeforeClose
<1>1. RunnerInv => QuietBeforeClose
  BY DEF RunnerInv, LifeInv
<1>2. QED
  BY <1>1, HostRunnerInv, PTL

-----------------------------------------------------------------------------
(* Counters                                                                *)

Readers == Totalled \cup Sampled

\* TotalsCatchUp alone does not survive a step: it needs the counter to have
\* grown since the sample, and a sample to have been the first.
MetricsInv ==
  /\ work \in Nat
  /\ base \in [Readers -> Nat \cup {NoSample}]
  /\ first \in [Readers -> Nat \cup {NoSample}]
  /\ counted \in [Readers -> Nat]
  /\ \A c \in Readers : /\ base[c] = NoSample <=> first[c] = NoSample
                        /\ base[c] # NoSample => base[c] <= work
  /\ TotalsCatchUp

LEMMA RememberCounts ==
  ASSUME MetricsInv, NEW c \in Readers, Remember(c), UNCHANGED work,
         \/ counted' = [counted EXCEPT ![c] = @ + diffUint(base[c], work)]
         \/ c \notin Totalled /\ UNCHANGED counted
  PROVE  MetricsInv'
<1> DEFINE d == diffUint(base[c], work)
<1>1. /\ work \in Nat /\ NoSample \notin Nat
      /\ base \in [Readers -> Nat \cup {NoSample}]
      /\ first \in [Readers -> Nat \cup {NoSample}]
      /\ counted \in [Readers -> Nat]
      /\ \A r \in Readers : /\ base[r] = NoSample <=> first[r] = NoSample
                            /\ base[r] # NoSample => base[r] <= work
  BY MetricsAssumption DEF MetricsInv
<1>2. /\ base' = [base EXCEPT ![c] = work]
      /\ first' = [first EXCEPT ![c] = IF first[c] = NoSample THEN work
                                                             ELSE first[c]]
  BY DEF Remember
<1>3. d = (IF base[c] = NoSample THEN 0 ELSE work - base[c]) /\ d \in Nat
  BY <1>1 DEF diffUint
<1>4. \/ counted' = [counted EXCEPT ![c] = counted[c] + d]
      \/ c \notin Totalled /\ counted' = counted
  OBVIOUS
<1> HIDE DEF d
<1>5. /\ base' \in [Readers -> Nat \cup {NoSample}]
      /\ first' \in [Readers -> Nat \cup {NoSample}]
      /\ counted' \in [Readers -> Nat]
  BY <1>1, <1>2, <1>3, <1>4
<1>6. ASSUME NEW r \in Readers
      PROVE  /\ base'[r] = NoSample <=> first'[r] = NoSample
             /\ base'[r] # NoSample => base'[r] <= work'
             /\ IF base'[r] = NoSample THEN counted'[r] = 0
                ELSE /\ first'[r] + counted'[r] <= base'[r]
                     /\ r \in Totalled => first'[r] + counted'[r] = base'[r]
  <2>1. IF base[r] = NoSample THEN counted[r] = 0
        ELSE /\ first[r] + counted[r] <= base[r]
             /\ r \in Totalled => first[r] + counted[r] = base[r]
    BY DEF MetricsInv, TotalsCatchUp, Readers
  <2>2. CASE r # c
    <3>1. base'[r] = base[r] /\ first'[r] = first[r] /\ counted'[r] = counted[r]
      BY <1>1, <1>2, <1>4, <2>2
    <3>2. QED
      BY <1>1, <2>1, <3>1
  <2>3. CASE r = c
    <3>1. /\ base'[c] = work /\ work' = work
          /\ first'[c] = IF first[c] = NoSample THEN work ELSE first[c]
          /\ \/ counted'[c] = counted[c] + d
             \/ c \notin Totalled /\ counted'[c] = counted[c]
      BY <1>1, <1>2, <1>4
    <3>2. CASE base[c] = NoSample
      BY <1>1, <1>3, <2>1, <2>3, <3>1, <3>2
    <3>3. CASE base[c] # NoSample
      <4>1. base[c] \in Nat /\ first[c] \in Nat /\ base[c] <= work
        BY <1>1, <3>3
      <4>2. QED
        BY <1>1, <1>3, <2>1, <2>3, <3>1, <3>3, <4>1
    <3>4. QED
      BY <3>2, <3>3
  <2>4. QED
    BY <2>2, <2>3
<1>7. QED
  BY <1>1, <1>5, <1>6 DEF MetricsInv, TotalsCatchUp, Readers

LEMMA HostMetricsInv == HostSpec => []MetricsInv
<1>1. HostInit => MetricsInv
  BY MetricsAssumption
  DEF HostInit, MetricsInit, MetricsInv, TotalsCatchUp, Readers
<1>2. ASSUME MetricsInv, UNCHANGED metrics PROVE MetricsInv'
  BY <1>2 DEF metrics, MetricsInv, TotalsCatchUp
<1>3. ASSUME MetricsInv, Work PROVE MetricsInv'
  <2>1. /\ work' = work + 1 /\ work \in Nat
        /\ base' = base /\ counted' = counted /\ first' = first
        /\ \A c \in Readers : base[c] \in Nat \cup {NoSample}
    BY <1>3 DEF Work, MetricsInv
  <2>2. \A c \in Readers : base[c] # NoSample => base[c] <= work'
    BY <1>3, <2>1 DEF MetricsInv
  <2>3. TotalsCatchUp'
    BY <1>3, <2>1 DEF MetricsInv, TotalsCatchUp
  <2>4. QED
    BY <1>3, <2>1, <2>2, <2>3 DEF MetricsInv
<1>4. ASSUME MetricsInv, NEW c \in Collectors, Collect(c) PROVE MetricsInv'
  <2>1. CASE c \in Totalled /\ CollectTotal(c)
    <3>1. CASE Nothing
      BY <1>2, <1>4, <2>1, <3>1 DEF CollectTotal, Nothing, metrics
    <3>2. CASE ~Nothing
      BY <1>4, <2>1, <3>2, RememberCounts DEF CollectTotal, Readers
    <3>3. QED
      BY <3>1, <3>2
  <2>2. CASE c \in Sampled /\ CollectUsage(c)
    <3>1. c \notin Totalled
      BY <2>2, MetricsAssumption
    <3>2. QED
      BY <1>4, <2>2, <3>1, RememberCounts DEF CollectUsage, Readers
  <2>3. CASE UNCHANGED metrics
    BY <1>2, <1>4, <2>3
  <2>4. QED
    BY <1>4, <2>1, <2>2, <2>3 DEF Collect
<1>5. MetricsInv /\ [HostNext]_hostVars => MetricsInv'
  <2> SUFFICES ASSUME MetricsInv, [HostNext]_hostVars PROVE MetricsInv'
    OBVIOUS
  <2>1. \/ UNCHANGED metrics \/ Work \/ \E c \in Collectors : Collect(c)
    BY DEF HostNext, hostVars, Startup, Detect, Launch, Shutdown, Collected, Loop
  <2>2. QED
    BY <1>2, <1>3, <1>4, <2>1
<1>6. QED
  BY <1>1, <1>5, PTL DEF HostSpec

\* Totals catch up and CPU time is reported once at most, for every number of
\* collectors and however long the host works (net.go:32-62, diskio.go:31-70,
\* cpu_usage.go:32-88, client.go:380-406).
THEOREM HostTotalsCatchUp == HostSpec => []TotalsCatchUp
<1>1. MetricsInv => TotalsCatchUp
  BY DEF MetricsInv
<1>2. QED
  BY <1>1, HostMetricsInv, PTL

-----------------------------------------------------------------------------
(* The configuration                                                       *)

LEMMA LeastNat ==
  ASSUME NEW T, T \subseteq Nat, T # {}
  PROVE  \E m \in T : \A k \in T : m <= k
<1>1. PICK m \in T : \A k \in T : ~(<<k, m>> \in OpToRel(<, Nat))
  BY NatLessThanWellFounded, WFMin
<1>2. ASSUME NEW k \in T PROVE m <= k
  <2>1. ~(<<k, m>> \in OpToRel(<, Nat))
    BY <1>1
  <2>2. k \in Nat /\ m \in Nat
    OBVIOUS
  <2>3. ~(k < m)
    BY <2>1, <2>2 DEF OpToRel
  <2>4. QED
    BY <2>2, <2>3
<1>3. QED
  BY <1>2

LEMMA GreatestNat ==
  ASSUME NEW N \in Nat, NEW T, T \subseteq 0..N, T # {}
  PROVE  \E m \in T : \A k \in T : k <= m
<1> DEFINE U == {N - t : t \in T}
<1>1. U \subseteq Nat /\ U # {}
  <2>1. \A t \in T : N - t \in Nat
    OBVIOUS
  <2>2. QED
    BY <2>1
<1>2. PICK u \in U : \A k \in U : u <= k
  BY <1>1, LeastNat
<1>3. PICK m \in T : u = N - m
  OBVIOUS
<1>4. ASSUME NEW k \in T PROVE k <= m
  <2>1. N - m <= N - k
    BY <1>2, <1>3
  <2>2. QED
    BY <2>1
<1>5. QED
  BY <1>4

LEMMA InputFields ==
  ASSUME NEW in \in Input
  PROVE  /\ in.flag \in BOOLEAN /\ in.env \in BOOLEAN
         /\ in.files \in [{"flag", "env", "user", "system"} -> FileStates]
         /\ in.yaml \in Config
         /\ in.workload \in Strings \cup {Absent}
         /\ in.hostname \in Strings /\ in.process \in Strings
BY DEF Input

LEMMA ConfigFields ==
  ASSUME NEW y \in Config
  PROVE  /\ y.workload \in Strings \cup {Absent} /\ y.endpoint \in Strings
         /\ y.envFiles \in Seq(Strings \cup {"missing", "other"}) /\ y.instances \in Seq(Strings)
         /\ y.mongo \in BOOLEAN \cup {Absent} /\ y.nginx \in BOOLEAN \cup {Absent}
         /\ y # Absent /\ y # Fatal
BY ConfigAssumption DEF Config

\* The file that --config or STATOK_CONFIG names, by itself
Named(in) == IF in.flag THEN "flag" ELSE "env"

\* What a named file comes to: it is read, or the agent does not start.
LEMMA LoadNamed ==
  ASSUME NEW in \in Input, in.flag \/ in.env
  PROVE  LET f == in.files[Named(in)] IN
         loadFileConfig(resolveConfigSource(in), in) =
           IF f = "empty" THEN EmptyConfig
           ELSE IF f = "yaml" /\ ~EnvFilesFail(in.yaml)
                  THEN expandEnvStrings(in.yaml, in)
           ELSE Fatal
<1>1. resolveConfigSource(in) = [path |-> Named(in), explicit |-> TRUE]
  BY DEF resolveConfigSource, Named
<1>2. in.files[Named(in)] \in FileStates
  BY InputFields DEF Named
<1>3. QED
  BY <1>1, <1>2 DEF loadFileConfig, NotExist, FileStates, Named

\* What is made of two configurations with the same keys is the same.
LEMMA StartupReads ==
  ASSUME NEW a, NEW b,
         LET c == loadFileConfig(resolveConfigSource(a), a)
             d == loadFileConfig(resolveConfigSource(b), b)
         IN  /\ c = Fatal <=> d = Fatal
             /\ c = Absent <=> d = Absent
             /\ c # Fatal /\ c # Absent =>
                  /\ c.workload = d.workload /\ c.mongo = d.mongo
                  /\ c.instances = d.instances /\ c.nginx = d.nginx
                  /\ c.endpoint = d.endpoint,
         LET c == loadFileConfig(resolveConfigSource(a), a) IN
           \/ c # Fatal /\ c # Absent /\ c.workload # Absent
           \/ a.workload = b.workload /\ a.hostname = b.hostname,
         a.apiKey = b.apiKey
  PROVE  startup(a) = startup(b)
<1> DEFINE c == loadFileConfig(resolveConfigSource(a), a)
           d == loadFileConfig(resolveConfigSource(b), b)
<1>1. startup(a) = LET run == IF c = Fatal THEN Fatal ELSE resolveRuntimeConfig(c, a)
                   IN  IF run = Fatal THEN Fatal
                       ELSE IF InitFails(run.workload, a.apiKey) THEN Fatal ELSE run
  BY DEF startup
<1>2. startup(b) = LET run == IF d = Fatal THEN Fatal ELSE resolveRuntimeConfig(d, b)
                   IN  IF run = Fatal THEN Fatal
                       ELSE IF InitFails(run.workload, b.apiKey) THEN Fatal ELSE run
  BY DEF startup
<1> HIDE DEF c, d
<1>3. /\ c = Fatal <=> d = Fatal
      /\ c = Absent <=> d = Absent
      /\ c # Fatal /\ c # Absent =>
           /\ c.workload = d.workload /\ c.mongo = d.mongo
           /\ c.instances = d.instances /\ c.nginx = d.nginx
           /\ c.endpoint = d.endpoint
      /\ \/ c # Fatal /\ c # Absent /\ c.workload # Absent
         \/ a.workload = b.workload /\ a.hostname = b.hostname
  BY DEF c, d
<1>4. c # Fatal => resolveRuntimeConfig(c, a) = resolveRuntimeConfig(d, b)
  <2> SUFFICES ASSUME c # Fatal
               PROVE  resolveRuntimeConfig(c, a) = resolveRuntimeConfig(d, b)
    OBVIOUS
  <2>1. resolveWorkload(c, a) = resolveWorkload(d, b)
    BY <1>3 DEF resolveWorkload
  <2>2. c # Absent => /\ MongoFails(c) <=> MongoFails(d)
                      /\ NginxFails(c) <=> NginxFails(d)
    BY <1>3 DEF MongoFails, NginxFails
  <2>3. QED
    BY <1>3, <2>1, <2>2 DEF resolveRuntimeConfig
<1>5. QED
  BY <1>1, <1>2, <1>3, <1>4

\* With a named file, only that file, its content and VAR decide what is loaded.
LEMMA LoadSame ==
  ASSUME NEW a \in Input, NEW b \in Input, a.flag \/ a.env, b.flag \/ b.env,
         a.files[Named(a)] = b.files[Named(b)],
         a.yaml = b.yaml, a.process = b.process
  PROVE  loadFileConfig(resolveConfigSource(a), a) =
           loadFileConfig(resolveConfigSource(b), b)
<1>1. expandEnvStrings(a.yaml, a) = expandEnvStrings(b.yaml, b)
  BY DEF expandEnvStrings, Lookup
<1>2. QED
  BY <1>1, LoadNamed

LEMMA FlagWins ==
  ASSUME NEW in \in Input, in.flag, NEW f \in FileStates
  PROVE  startup([in EXCEPT !.env = ~@, !.files["env"] = f, !.files["user"] = f,
                            !.files["system"] = f]) = startup(in)
<1> DEFINE other == [in EXCEPT !.env = ~@, !.files["env"] = f,
                               !.files["user"] = f, !.files["system"] = f]
<1>1. /\ other \in Input /\ other.flag /\ other.files["flag"] = in.files["flag"]
      /\ other.yaml = in.yaml /\ other.process = in.process
      /\ other.workload = in.workload /\ other.hostname = in.hostname
      /\ other.apiKey = in.apiKey
  BY InputFields DEF Input
<1> HIDE DEF other
<1>2. loadFileConfig(resolveConfigSource(other), other) =
        loadFileConfig(resolveConfigSource(in), in)
  BY <1>1, LoadSame DEF Named
<1>3. startup(other) = startup(in)
  BY <1>1, <1>2, StartupReads
<1>4. QED
  BY <1>3 DEF other

LEMMA NamedWins ==
  ASSUME NEW in \in Input, in.flag \/ in.env, NEW f \in FileStates
  PROVE  startup([in EXCEPT !.files["user"] = f, !.files["system"] = f]) = startup(in)
<1> DEFINE other == [in EXCEPT !.files["user"] = f, !.files["system"] = f]
<1>1. /\ other \in Input /\ other.flag = in.flag /\ other.env = in.env
      /\ other.files["flag"] = in.files["flag"]
      /\ other.files["env"] = in.files["env"]
      /\ other.yaml = in.yaml /\ other.process = in.process
      /\ other.workload = in.workload /\ other.hostname = in.hostname
      /\ other.apiKey = in.apiKey
  BY InputFields DEF Input
<1> HIDE DEF other
<1>2. loadFileConfig(resolveConfigSource(other), other) =
        loadFileConfig(resolveConfigSource(in), in)
  BY <1>1, LoadSame DEF Named
<1>3. startup(other) = startup(in)
  BY <1>1, <1>2, StartupReads
<1>4. QED
  BY <1>3 DEF other

\* ${VAR} stands for a string, so that an expanded key is there if it was before.
LEMMA Expanded ==
  ASSUME NEW in \in Input
  PROVE  LET c == expandEnvStrings(in.yaml, in) IN
         /\ c \in Config
         /\ c.workload = Absent <=> in.yaml.workload = Absent
         /\ c.mongo = in.yaml.mongo /\ c.nginx = in.yaml.nginx
<1> DEFINE y == in.yaml
           Expand(v) == IF v = "ref" THEN Lookup(y, in) ELSE v
           expanded == [i \in 1..Len(y.instances) |-> Expand(y.instances[i])]
<1>1. /\ y \in Config /\ in.process \in Strings /\ Absent \notin Strings
      /\ y.workload \in Strings \cup {Absent} /\ y.endpoint \in Strings
      /\ y.envFiles \in Seq(Strings \cup {"missing", "other"}) /\ y.instances \in Seq(Strings)
  BY InputFields, ConfigFields, ConfigAssumption
<1>2. Lookup(y, in) \in Strings
  <2>1. /\ Len(y.envFiles) \in Nat
        /\ \A i \in 1..Len(y.envFiles) :
             y.envFiles[i] \in Strings \cup {"missing", "other"}
    BY <1>1, LenProperties, ElementOfSeq
  <2>2. CASE Defining(y) = {}
    BY <1>1, <2>2 DEF Lookup
  <2>3. CASE Defining(y) # {}
    <3>1. Defining(y) \subseteq 0..Len(y.envFiles)
      BY DEF Defining
    <3>2. \E m \in Defining(y) : \A k \in Defining(y) : k <= m
      BY <2>1, <2>3, <3>1, GreatestNat
    <3> DEFINE last == CHOOSE i \in Defining(y) : \A j \in Defining(y) : j <= i
    <3>3. last \in Defining(y)
      BY <3>2
    <3>4. Lookup(y, in) = y.envFiles[last]
      BY <2>3 DEF Lookup
    <3> HIDE DEF last
    <3>5. last \in 1..Len(y.envFiles) /\ y.envFiles[last] \notin {"missing", "other"}
      BY <3>3 DEF Defining
    <3>6. QED
      BY <2>1, <3>4, <3>5
  <2>4. QED
    BY <2>2, <2>3
<1>3. expandEnvStrings(y, in) =
        [y EXCEPT !.workload = Expand(@), !.endpoint = Expand(@),
                  !.instances = [i \in 1..Len(@) |-> Expand(@[i])]]
  BY DEF expandEnvStrings
<1> HIDE DEF y
<1>4. expanded \in Seq(Strings)
  <2>1. /\ Len(y.instances) \in Nat
        /\ \A i \in 1..Len(y.instances) : y.instances[i] \in Strings
    BY <1>1, LenProperties, ElementOfSeq
  <2>2. \A i \in 1..Len(y.instances) : Expand(y.instances[i]) \in Strings
    BY <1>2, <2>1
  <2>3. expanded \in [1..Len(y.instances) -> Strings]
    BY <2>2
  <2>4. QED
    BY <2>1, <2>3, SeqDef
<1>5. /\ Expand(y.workload) \in Strings \cup {Absent} /\ Expand(y.endpoint) \in Strings
      /\ Expand(y.workload) = Absent <=> y.workload = Absent
  <2>1. "ref" \in Strings
    BY ConfigAssumption
  <2>2. "ref" # Absent /\ Lookup(y, in) # Absent
    BY <1>1, <1>2, <2>1
  <2>3. QED
    BY <1>1, <1>2, <2>2
<1>6. /\ expandEnvStrings(y, in) \in Config
      /\ expandEnvStrings(y, in).workload = Expand(y.workload)
      /\ expandEnvStrings(y, in).mongo = y.mongo
      /\ expandEnvStrings(y, in).nginx = y.nginx
  BY <1>1, <1>3, <1>4, <1>5 DEF Config
<1>7. QED
  BY <1>5, <1>6 DEF y

\* A workload in the file makes those of flag and host irrelevant.
LEMMA FileWorkloadWins ==
  ASSUME NEW in \in Input, in.flag \/ in.env, in.files[Named(in)] = "yaml",
         in.yaml.workload # Absent, NEW w \in {"blank", Absent}
  PROVE  startup([in EXCEPT !.workload = w, !.hostname = w]) = startup(in)
<1> DEFINE other == [in EXCEPT !.workload = w, !.hostname = w]
<1>1. /\ other.flag = in.flag /\ other.env = in.env /\ other.root = in.root
      /\ other.files = in.files /\ other.yaml = in.yaml
      /\ other.process = in.process /\ other.apiKey = in.apiKey
  BY DEF Input
<1> HIDE DEF other
<1>2. loadFileConfig(resolveConfigSource(other), other) =
        loadFileConfig(resolveConfigSource(in), in)
  <2>1. resolveConfigSource(other) = resolveConfigSource(in)
    BY <1>1 DEF resolveConfigSource, defaultConfigPaths
  <2>2. expandEnvStrings(other.yaml, other) = expandEnvStrings(in.yaml, in)
    BY <1>1 DEF expandEnvStrings, Lookup
  <2>3. QED
    BY <1>1, <2>1, <2>2 DEF loadFileConfig
<1> DEFINE c == loadFileConfig(resolveConfigSource(in), in)
<1>3. c = IF EnvFilesFail(in.yaml) THEN Fatal ELSE expandEnvStrings(in.yaml, in)
  BY LoadNamed
<1>4. CASE EnvFilesFail(in.yaml)
  BY <1>2, <1>3, <1>4 DEF startup, other
<1>5. CASE ~EnvFilesFail(in.yaml)
  <2>1. c # Fatal /\ c # Absent /\ c.workload # Absent
    BY <1>3, <1>5, Expanded, ConfigFields
  <2> HIDE DEF c
  <2>2. startup(in) = startup(other)
    BY <1>1, <1>2, <2>1, StartupReads DEF c
  <2>3. QED
    BY <2>2 DEF other
<1>6. QED
  BY <1>4, <1>5

\* The last env file that defines VAR makes the others and the environment irrelevant.
LEMMA LastEnvFileWins ==
  ASSUME NEW in \in Input, in.flag \/ in.env, in.files[Named(in)] = "yaml",
         NEW n, n = Len(in.yaml.envFiles), n > 0,
         in.yaml.envFiles[n] \notin {"missing", "other", "bad"},
         ~EnvFilesFail(in.yaml)
  PROVE  startup([in EXCEPT !.process = "blank",
                            !.yaml.envFiles = <<in.yaml.envFiles[n]>>]) = startup(in)
<1> DEFINE y == in.yaml
           other == [in EXCEPT !.process = "blank",
                               !.yaml.envFiles = <<in.yaml.envFiles[n]>>]
           z == other.yaml
<1>1. y \in Config /\ y.envFiles \in Seq(Strings \cup {"missing", "other"})
      /\ n \in Nat /\ n \in 1..n /\ y.envFiles[n] \in Strings \cup {"missing", "other"}
  <2>1. y \in Config /\ y.envFiles \in Seq(Strings \cup {"missing", "other"})
    BY InputFields, ConfigFields
  <2>2. n \in Nat /\ n \in 1..n
    BY <2>1, LenProperties
  <2>3. QED
    BY <2>1, <2>2, ElementOfSeq
<1>2. /\ other \in Input /\ other.flag = in.flag /\ other.env = in.env
      /\ other.files = in.files /\ other.apiKey = in.apiKey
      /\ other.workload = in.workload /\ other.hostname = in.hostname
      /\ z = [y EXCEPT !.envFiles = <<y.envFiles[n]>>]
  <2>1. z = [y EXCEPT !.envFiles = <<y.envFiles[n]>>]
    BY DEF Input
  <2>2. z \in Config
    <3> HIDE DEF y, z
    <3>1. <<y.envFiles[n]>> \in Seq(Strings \cup {"missing", "other"})
      BY <1>1
    <3>2. QED
      BY <1>1, <2>1, <3>1 DEF Config
  <2>3. "blank" \in Strings
    BY ConfigAssumption
  <2>4. QED
    BY <2>1, <2>2, <2>3 DEF Input
<1>3. /\ z.envFiles = <<y.envFiles[n]>> /\ z.workload = y.workload
      /\ z.mongo = y.mongo /\ z.instances = y.instances
      /\ z.nginx = y.nginx /\ z.endpoint = y.endpoint
  BY <1>1, <1>2 DEF Config
<1> HIDE DEF other
<1>4. Lookup(y, in) = y.envFiles[n]
  <2>1. n \in Defining(y) /\ \A j \in Defining(y) : j <= n
    BY <1>1 DEF Defining
  <2>2. \A i \in Defining(y) : (\A j \in Defining(y) : j <= i) => i = n
    <3>1. Defining(y) \subseteq Nat
      BY <1>1 DEF Defining
    <3>2. QED
      BY <1>1, <2>1, <3>1
  <2>3. (CHOOSE i \in Defining(y) : \A j \in Defining(y) : j <= i) = n
    BY <2>1, <2>2
  <2>4. QED
    BY <2>1, <2>3 DEF Lookup
<1>5. Lookup(z, other) = y.envFiles[n]
  <2>1. Len(z.envFiles) = 1 /\ z.envFiles[1] = y.envFiles[n]
    BY <1>3
  <2>2. Defining(z) = {1}
    BY <2>1 DEF Defining
  <2>3. (CHOOSE i \in {1} : \A j \in {1} : j <= i) = 1
    OBVIOUS
  <2>4. QED
    BY <2>1, <2>2, <2>3 DEF Lookup
<1>6. ~EnvFilesFail(z)
  BY <1>3 DEF EnvFilesFail
<1> DEFINE c == expandEnvStrings(y, in)
           d == expandEnvStrings(z, other)
<1>7. /\ loadFileConfig(resolveConfigSource(in), in) = c
      /\ loadFileConfig(resolveConfigSource(other), other) = d
  BY <1>2, <1>6, LoadNamed DEF Named
<1>8. /\ c.workload = d.workload /\ c.mongo = d.mongo /\ c.nginx = d.nginx
      /\ c.instances = d.instances /\ c.endpoint = d.endpoint
  <2> HIDE DEF y, z
  <2>1. y \in Config /\ z \in Config
    BY <1>1, <1>2, InputFields DEF z
  <2>2. QED
    BY <1>3, <1>4, <1>5, <2>1 DEF expandEnvStrings, Config
<1>9. c \in Config /\ d \in Config
  BY <1>2, Expanded
<1> HIDE DEF c, d
<1>10. c # Fatal /\ c # Absent /\ d # Fatal /\ d # Absent
  BY <1>9, ConfigFields
<1>11. startup(in) = startup(other)
  BY <1>2, <1>7, <1>8, <1>10, StartupReads
<1>12. QED
  BY <1>11 DEF other

LEMMA InputHonoured ==
  ASSUME NEW in \in Input
  PROVE  Honours(in)
<1> DEFINE c == loadFileConfig(resolveConfigSource(in), in)
           result == startup(in)
           y == in.yaml
<1>1. ASSUME result # Fatal
      PROVE  /\ c # Fatal /\ result = resolveRuntimeConfig(c, in)
             /\ result = [workload |-> resolveWorkload(c, in),
                          mongo    |-> c # Absent /\ c.mongo # FALSE
                                         /\ c.instances # <<>>,
                          nginx    |-> c = Absent \/ c.nginx # FALSE,
                          endpoint |-> IF c = Absent \/ c.nginx = FALSE THEN "blank"
                                       ELSE c.endpoint]
             /\ result.workload \notin {"blank", "bad"}
             /\ c # Absent => ~MongoFails(c)
  <2> HIDE DEF c
  <2>1. /\ c # Fatal /\ result = resolveRuntimeConfig(c, in)
        /\ ~InitFails(result.workload, in.apiKey)
    BY <1>1 DEF startup, c
  <2> HIDE DEF result
  <2>2. QED
    BY <1>1, <2>1 DEF resolveRuntimeConfig, InitFails, validateWorkload
<1>2. in.flag => \A f \in FileStates :
        startup([in EXCEPT !.env = ~@, !.files["env"] = f, !.files["user"] = f,
                           !.files["system"] = f]) = result
  BY FlagWins
<1>3. in.flag \/ in.env => \A f \in FileStates :
        startup([in EXCEPT !.files["user"] = f, !.files["system"] = f]) = result
  BY NamedWins
<1>4. in.flag \/ in.env => (result # Fatal => in.files[Named(in)] \in {"empty", "yaml"})
  <2> SUFFICES ASSUME in.flag \/ in.env, result # Fatal,
                      in.files[Named(in)] \notin {"empty", "yaml"}
               PROVE  FALSE
    OBVIOUS
  <2>1. c = Fatal
    BY LoadNamed
  <2>2. QED
    BY <1>1, <2>1
<1>5. result # Fatal => result.workload \notin {"blank", "bad", Absent}
  <2> SUFFICES ASSUME result # Fatal PROVE result.workload # Absent
    BY <1>1
  <2>1. result.workload = resolveWorkload(c, in) /\ result.workload \notin {"blank", "bad"}
    BY <1>1
  <2>2. in.hostname # Absent
    BY InputFields, ConfigAssumption
  <2>3. Fatal # Absent
    BY ConfigAssumption
  <2> HIDE DEF c, result
  <2>4. QED
    BY <2>1, <2>2, <2>3 DEF resolveWorkload
<1>6. (in.flag \/ in.env) /\ in.files[Named(in)] = "yaml" =>
        /\ y.workload # Absent => \A w \in {"blank", Absent} :
             startup([in EXCEPT !.workload = w, !.hostname = w]) = result
        /\ Len(y.envFiles) > 0
             /\ y.envFiles[Len(y.envFiles)] \notin {"missing", "other", "bad"}
             /\ ~EnvFilesFail(y) =>
               startup([in EXCEPT !.process = "blank",
                          !.yaml.envFiles = <<y.envFiles[Len(y.envFiles)]>>]) = result
  BY FileWorkloadWins, LastEnvFileWins
<1>7. (in.flag \/ in.env) /\ in.files[Named(in)] = "yaml" /\ result # Fatal =>
        /\ y.mongo = TRUE => result.mongo
        /\ y.mongo = FALSE => ~result.mongo
        /\ y.nginx = FALSE => ~result.nginx
  <2> SUFFICES ASSUME in.flag \/ in.env, in.files[Named(in)] = "yaml", result # Fatal
               PROVE  /\ y.mongo = TRUE => result.mongo
                      /\ y.mongo = FALSE => ~result.mongo
                      /\ y.nginx = FALSE => ~result.nginx
    OBVIOUS
  <2>1. c = expandEnvStrings(y, in)
    <3>1. c # Fatal
      BY <1>1
    <3>2. QED
      BY <3>1, LoadNamed
  <2>2. c \in Config /\ c.mongo = y.mongo /\ c.nginx = y.nginx /\ c # Absent
    BY <2>1, Expanded, ConfigFields
  <2> HIDE DEF c, result, y
  <2>3. /\ result.mongo = (c # Absent /\ c.mongo # FALSE /\ c.instances # <<>>)
        /\ result.nginx = (c = Absent \/ c.nginx # FALSE)
        /\ ~MongoFails(c)
    <3> DEFINE w == resolveWorkload(c, in)
               m == c # Absent /\ c.mongo # FALSE /\ c.instances # <<>>
               n == c = Absent \/ c.nginx # FALSE
               e == IF c = Absent \/ c.nginx = FALSE THEN "blank" ELSE c.endpoint
    <3>1. result = [workload |-> w, mongo |-> m, nginx |-> n, endpoint |-> e]
      BY <1>1
    <3>2. ~MongoFails(c)
      BY <1>1, <2>2
    <3> HIDE DEF w, m, n, e
    <3>3. result.mongo = m /\ result.nginx = n
      BY <3>1
    <3>4. QED
      BY <3>2, <3>3 DEF m, n
  <2>4. c.mongo = TRUE => c.instances # <<>>
    BY <2>3 DEF MongoFails
  <2>5. c.mongo = TRUE => c.mongo # FALSE
    OBVIOUS
  <2>6. QED
    BY <2>2, <2>3, <2>4, <2>5
<1>8. QED
  BY <1>2, <1>3, <1>4, <1>5, <1>6, <1>7 DEF Honours, Named

-----------------------------------------------------------------------------
(* The search for nginx                                                    *)

\* The endpoints before the i-th that hang
Hanging(answers, i) == {j \in 1..(i - 1) : answers[j] = "hangs"}

LEMMA HangingFinite ==
  ASSUME NEW answers, NEW i \in Nat
  PROVE  IsFiniteSet(Hanging(answers, i)) /\ Cardinality(Hanging(answers, i)) \in Nat
<1>1. IsFiniteSet(1..(i - 1))
  BY FS_Interval
<1>2. Hanging(answers, i) \subseteq 1..(i - 1)
  BY DEF Hanging
<1>3. QED
  BY <1>1, <1>2, FS_Subset, FS_CardinalityType

\* Who is in time for an endpoint is in time for those before it.
LEMMA InTimeEarlier ==
  ASSUME NEW answers, NEW i \in Nat, NEW k \in Nat, k <= i, InTime(answers, i)
  PROVE  InTime(answers, k)
<1> DEFINE m == Cardinality(Hanging(answers, i))
           n == Cardinality(Hanging(answers, k))
<1>1. Hanging(answers, k) \subseteq Hanging(answers, i)
  BY DEF Hanging
<1>2. m \in Nat /\ n \in Nat /\ n <= m
  BY <1>1, HangingFinite, FS_Subset
<1>3. RequestTimeout * m < CollectTimeout
  BY DEF InTime, Hanging
<1> HIDE DEF m, n
<1>4. RequestTimeout * n <= RequestTimeout * m
  <2>1. RequestTimeout \in Nat
    BY ConfigAssumption
  <2>2. \A t \in Nat : t * n <= t * m
    BY <1>2
  <2>3. QED
    BY <2>1, <2>2
<1>5. RequestTimeout * n < CollectTimeout
  <2>1. /\ RequestTimeout * n \in Int /\ RequestTimeout * m \in Int
        /\ CollectTimeout \in Int
    BY <1>2, ConfigAssumption
  <2>2. QED
    BY <1>3, <1>4, <2>1
<1>6. QED
  BY <1>5 DEF InTime, Hanging, n

\* Two endpoints have to hang before the search runs out of time.
LEMMA LateAfterTwo ==
  ASSUME NEW answers, NEW i \in Nat, ~InTime(answers, i)
  PROVE  \E j, k \in 1..(i - 1) : j < k /\ answers[j] = "hangs" /\ answers[k] = "hangs"
<1> DEFINE H == Hanging(answers, i)
           n == Cardinality(H)
<1>1. n \in Nat /\ IsFiniteSet(H)
  BY HangingFinite
<1>2. ~(RequestTimeout * n < CollectTimeout)
  BY DEF InTime, Hanging
<1> HIDE DEF n
<1>3. n # 0 /\ n # 1
  <2>1. CASE n = 0
    BY <1>2, <2>1, ConfigAssumption
  <2>2. CASE n = 1
    BY <1>2, <2>2, ConfigAssumption
  <2>3. QED
    BY <2>1, <2>2
<1> HIDE DEF H
<1>4. H # {}
  BY <1>3, FS_EmptySet DEF n
<1>5. PICK j \in H : TRUE
  BY <1>4
<1>6. H # {j}
  BY <1>3, FS_Singleton DEF n
<1>7. PICK k \in H : k # j
  BY <1>5, <1>6
<1>8. /\ j \in 1..(i - 1) /\ answers[j] = "hangs"
      /\ k \in 1..(i - 1) /\ answers[k] = "hangs"
  BY <1>5, <1>7 DEF H, Hanging
<1>9. j < k \/ k < j
  BY <1>7, <1>8
<1>10. QED
  BY <1>8, <1>9

LEMMA SearchFindsFirst ==
  ASSUME NEW S, NEW answers \in Seq(S)
  PROVE  FindsFirst(answers)
<1> DEFINE ok == {i \in 1..Len(answers) : answers[i] = "ok"}
           found == {i \in 1..Len(answers) : answers[i] = "ok" /\ InTime(answers, i)}
<1>1. Len(answers) \in Nat
  BY LenProperties
<1>2. ok \subseteq Nat /\ found \subseteq Nat /\ 0 \notin found
  BY <1>1
<1>3. found = {} => autoProbeEndpoint(answers) = 0
  BY DEF autoProbeEndpoint
<1>4. found # {} => /\ autoProbeEndpoint(answers) \in found
                    /\ \A j \in found : autoProbeEndpoint(answers) <= j
  <2> SUFFICES ASSUME found # {}
               PROVE  /\ autoProbeEndpoint(answers) \in found
                      /\ \A j \in found : autoProbeEndpoint(answers) <= j
    OBVIOUS
  <2>1. autoProbeEndpoint(answers) = CHOOSE i \in found : \A j \in found : i <= j
    BY DEF autoProbeEndpoint
  <2> HIDE DEF found
  <2>2. \E i \in found : \A j \in found : i <= j
    BY <1>2, LeastNat
  <2>3. QED
    BY <2>1, <2>2
<1>5. \A i \in ok : i \in found <=> InTime(answers, i)
  OBVIOUS
<1>6. found \subseteq ok
  OBVIOUS
<1>7. \A i \in ok : found = {} => ~InTime(answers, i)
  BY <1>5
<1> HIDE DEF ok, found
<1> DEFINE foremost == autoProbeEndpoint(answers)
<1> HIDE DEF foremost
<1>8. foremost # 0 => foremost \in ok /\ \A i \in ok : foremost <= i
  <2> SUFFICES ASSUME foremost # 0, NEW i \in ok, ~(foremost <= i)
               PROVE  FALSE
    BY <1>3, <1>4, <1>6 DEF foremost
  <2>1. foremost \in found /\ \A j \in found : foremost <= j
    BY <1>3, <1>4 DEF foremost
  <2>2. foremost \in Nat /\ i \in Nat
    BY <1>2, <2>1
  <2>3. InTime(answers, foremost)
    BY <1>5, <1>6, <2>1
  <2>4. i <= foremost
    BY <2>2
  <2>5. i \in found
    BY <1>5, <2>2, <2>3, <2>4, InTimeEarlier
  <2>6. QED
    BY <2>1, <2>5
<1>9. foremost = 0 => \A i \in ok : \E j, k \in 1..(i - 1) :
        j < k /\ answers[j] = "hangs" /\ answers[k] = "hangs"
  <2> SUFFICES ASSUME foremost = 0, NEW i \in ok
               PROVE  \E j, k \in 1..(i - 1) :
                        j < k /\ answers[j] = "hangs" /\ answers[k] = "hangs"
    OBVIOUS
  <2>1. found = {}
    BY <1>2, <1>4 DEF foremost
  <2>2. QED
    BY <1>2, <1>7, <2>1, LateAfterTwo
<1>10. QED
  BY <1>8, <1>9 DEF FindsFirst, ok, foremost

-----------------------------------------------------------------------------
(* Startup                                                                 *)

InputsKept == inputs \in Inputs \cup {Forgotten}

LEMMA HostInputs == HostSpec => []InputsKept
<1>1. HostInit => InputsKept
  BY DEF HostInit, InputsKept
<1>2. InputsKept /\ [HostNext]_hostVars => InputsKept'
  BY DEF InputsKept, HostNext, hostVars, Startup, Detect, Launch, Shutdown,
         Collected, Loop
<1>3. QED
  BY <1>1, <1>2, PTL DEF HostSpec

\* Whatever strings the files, flags and variables hold, however many env files and
\* instances there are and however many endpoints are tried: what was overridden has
\* no influence, what was asked for is done or the agent does not start (an nginx
\* that is not reached at startup is left out), and the search for nginx ends at the
\* first endpoint that answers, unless two before it hang
\* (cmd/statok-hostmetrics/config.go, main.go:55-91, nginx/probe.go:45-73).
THEOREM HostStartsAsAsked == HostSpec => []StartsAsAsked
<1>1. InputsKept => StartsAsAsked
  <2> SUFFICES ASSUME inputs \in Inputs
               PROVE  Honours(inputs) /\ FindsFirst(inputs.nginx)
    BY DEF StartsAsAsked, InputsKept
  <2>1. inputs \in Input
    BY HostAssumption
  <2>2. Honours(inputs)
    BY <2>1, InputHonoured
  <2>3. inputs.nginx \in Seq({"ok", "refused", "hangs"})
    BY <2>1 DEF Input
  <2>4. FindsFirst(inputs.nginx)
    BY <2>3, SearchFindsFirst
  <2>5. QED
    BY <2>2, <2>4
<1>2. QED
  BY <1>1, HostInputs, PTL

=============================================================================
