--------------------------- MODULE PipelineProofs ---------------------------
(***************************************************************************)
(* Proofs about the way of an event object through the client, about the   *)
(* hash table of the batch builder, and about what payloads say and what   *)
(* rounding makes of it (EventPool, BatchBuilder, Pipeline), for any       *)
(* number of objects and series, every hash function and all sizes of the  *)
(* queues, the batch and the table.                                        *)
(***************************************************************************)
EXTENDS Pipeline, FiniteSetTheorems, SequenceTheorems, TLAPS

-----------------------------------------------------------------------------
(* The inductive invariant                                                 *)

\* What an event object holds, in use or not.
EventFields ==
  [typ : {"none", "counter", "value", "unique"}, value : Int,
   uniqueID : UniqueIds \cup {None}, ts : Nat]

\* What the pool, the callers and the worker keep.
FlowTypeOK ==
  /\ pool \in [Objects -> Nat]
  /\ event \in [Objects -> EventFields]
  /\ array \in [Objects -> Series \cup {None}]
  /\ held = <<>> \/ \E o \in Objects : held = <<o>>
  /\ queue \in Seq(Objects)
  /\ batch \in Seq(Objects)
  /\ added \in 0..Len(batch)
  /\ pc # "build" => added = 0

\* An object outside the pool carries the call of its borrower.
Filled ==
  \A o \in Objects : pool[o] = 0 => event[o] \in Recordings /\ array[o] \in Series

FlowInv == FlowTypeOK /\ OneOwner /\ Filled

\* The labels of an entry are a copy of their own, and no series has two entries.
OwnLabels == \A j \in 1..Len(entries) : entries[j].labels \in Series

SeriesOnce ==
  \A j, k \in 1..Len(entries) : entries[j].labels = entries[k].labels => j = k

TableInv == Buckets /\ OwnLabels /\ SeriesOnce

\* The lines of a series, by the copies of its labels.
LinesOf(c, x) == {i \in 1..Len(c) : c[i].labels = x}

OwnLine == [labels : Series, value : Int, time : Nat]
OwnUnique == [labels : Series, id : UniqueIds]
Record == [sum : [Series -> Int], count : [Series -> Nat], last : [Series -> Nat],
           samples : Seq(Series \X Int \X Nat), occurred : SUBSET (Series \X UniqueIds)]

\* The lines c add up to the sums, and bear the times, of what was recorded; a
\* series of a, the aggregated ones, has at most one line.
SumsKept(c, sum) ==
  \A x \in Series : SumOfLines(c, LinesOf(c, x)) = sum[x]
TimesKept(c, count, last) ==
  \A x \in Series :
    /\ \A i \in LinesOf(c, x) : c[i].time <= last[x]
    /\ IF count[x] = 0 THEN last[x] = 0
         ELSE \E i \in LinesOf(c, x) : c[i].time = last[x]
BudgetKept(c, count, a) ==
  \A x \in Series :
    Cardinality(LinesOf(c, x)) <= IF x \in a THEN 1 ELSE count[x]
SamplesKept(v, samples) ==
  [i \in 1..Len(v) |-> <<v[i].labels, v[i].value, v[i].time>>] = samples
UniquesKept(u, occurred) ==
  /\ {<<u[i].labels, u[i].id>> : i \in 1..Len(u)} = occurred
  /\ Len(u) = Cardinality(occurred)
  /\ IsFiniteSet(occurred)

\* A payload says what was recorded, by itself: no event object is looked at.
Faithful(c, v, u, r, a) ==
  /\ c \in Seq(OwnLine) /\ v \in Seq(OwnLine) /\ u \in Seq(OwnUnique) /\ r \in Record
  /\ SumsKept(c, r.sum) /\ TimesKept(c, r.count, r.last) /\ BudgetKept(c, r.count, a)
  /\ SamplesKept(v, r.samples) /\ UniquesKept(u, r.occurred)

FaithfulPayloads ==
  {p \in [counters : Seq(OwnLine), values : Seq(OwnLine), uniques : Seq(OwnUnique),
          recorded : Record, aggregated : SUBSET Series] :
     Faithful(p.counters, p.values, p.uniques, p.recorded, p.aggregated)}

\* The series with an entry; and how the entries go with the lines: an entry leads to
\* a line of its series, and until the table is full every line has an entry.
Entered == {entries[j].labels : j \in 1..Len(entries)}

Linked ==
  /\ \A j \in 1..Len(entries) :
       counters[entries[j].payloadIndex].labels = entries[j].labels
  /\ Len(entries) < MaxSeriesPerBatch =>
       \A i \in 1..Len(counters) : counters[i].labels \in Entered

CountInv ==
  /\ Faithful(counters, values, uniques, recorded, Entered)
  /\ Linked
  /\ seen = recorded.occurred

\* What is sent or waits is a payload of its own; what was delivered is as far off
\* as rounding its lines makes it.
SendInv ==
  /\ pc = "send" => payload \in FaithfulPayloads
  /\ retryQueue \in Seq(FaithfulPayloads)
  /\ sent \in [Series -> [wire : Int, exact : Int, lines : Nat]]
  /\ RoundingBounded

Inv == FlowInv /\ TableInv /\ CountInv /\ SendInv

-----------------------------------------------------------------------------
(* Counting an object in a sequence                                        *)

LEMMA OccurrencesType ==
  ASSUME NEW s \in Seq(Objects), NEW o
  PROVE  /\ IsFiniteSet({i \in 1..Len(s) : s[i] = o})
         /\ Occurrences(o, s) \in Nat
<1>1. Len(s) \in Nat /\ IsFiniteSet(1..Len(s))
  BY LenProperties, FS_Interval
<1>2. {i \in 1..Len(s) : s[i] = o} \in SUBSET (1..Len(s))
  OBVIOUS
<1>3. IsFiniteSet({i \in 1..Len(s) : s[i] = o})
  BY <1>1, <1>2, FS_Subset
<1>4. QED
  BY <1>3, FS_CardinalityType DEF Occurrences

LEMMA OccurrencesEmpty ==
  ASSUME NEW o
  PROVE  Occurrences(o, <<>>) = 0
<1>1. {i \in 1..Len(<<>>) : <<>>[i] = o} = {}
  OBVIOUS
<1>2. QED
  BY <1>1, FS_EmptySet DEF Occurrences

\* An object that occurs in a sequence has been counted.
LEMMA OccurrencesPositive ==
  ASSUME NEW s \in Seq(Objects), NEW i \in 1..Len(s)
  PROVE  Occurrences(s[i], s) >= 1
<1> DEFINE S == {j \in 1..Len(s) : s[j] = s[i]}
<1>1. IsFiniteSet(S) /\ Occurrences(s[i], s) = Cardinality(S)
  BY OccurrencesType DEF Occurrences
<1>2. i \in S
  OBVIOUS
<1> HIDE DEF S
<1>3. Cardinality(S) \in Nat /\ Cardinality(S) # 0
  BY <1>1, <1>2, FS_EmptySet, FS_CardinalityType
<1>4. QED
  BY <1>1, <1>3

\* An object that was not counted does not occur.
LEMMA OccurrencesNone ==
  ASSUME NEW s \in Seq(Objects), NEW o, Occurrences(o, s) # 0
  PROVE  \E i \in 1..Len(s) : s[i] = o
<1>1. {j \in 1..Len(s) : s[j] = o} # {}
  BY FS_EmptySet DEF Occurrences
<1>2. QED
  BY <1>1

LEMMA OccurrencesAppend ==
  ASSUME NEW s \in Seq(Objects), NEW e \in Objects, NEW o
  PROVE  Occurrences(o, Append(s, e)) = Occurrences(o, s) + (IF e = o THEN 1 ELSE 0)
<1> DEFINE S == {i \in 1..Len(s) : s[i] = o}
           T == {i \in 1..Len(Append(s, e)) : Append(s, e)[i] = o}
<1>1. /\ Len(s) \in Nat
      /\ Len(Append(s, e)) = Len(s) + 1
      /\ \A i \in 1..Len(s) : Append(s, e)[i] = s[i]
      /\ Append(s, e)[Len(s) + 1] = e
  BY AppendProperties, LenProperties
<1>2. IsFiniteSet(S) /\ Cardinality(S) \in Nat
  BY OccurrencesType, FS_CardinalityType
<1>0. /\ Occurrences(o, s) = Cardinality(S)
      /\ Occurrences(o, Append(s, e)) = Cardinality(T)
  BY DEF Occurrences
<1>3. CASE e = o
  <2>1. T = S \cup {Len(s) + 1}
    BY <1>1, <1>3
  <2>2. Len(s) + 1 \notin S
    BY <1>1
  <2>3. Cardinality(T) = Cardinality(S) + 1
    BY <1>2, <2>1, <2>2, FS_AddElement
  <2>4. QED
    BY <1>0, <1>3, <2>3
<1>4. CASE e # o
  <2>1. T = S
    BY <1>1, <1>4
  <2>2. Cardinality(T) = Cardinality(S)
    BY <2>1
  <2> HIDE DEF S, T
  <2>3. QED
    BY <1>0, <1>2, <1>4, <2>2
<1>5. QED
  BY <1>3, <1>4

LEMMA OccurrencesOne ==
  ASSUME NEW e \in Objects, NEW o
  PROVE  Occurrences(o, <<e>>) = IF e = o THEN 1 ELSE 0
<1>1. <<>> \in Seq(Objects) /\ <<e>> = Append(<<>>, e)
  OBVIOUS
<1>2. Occurrences(o, Append(<<>>, e)) = Occurrences(o, <<>>) + (IF e = o THEN 1 ELSE 0)
  BY <1>1, OccurrencesAppend
<1>3. Occurrences(o, <<>>) = 0
  BY OccurrencesEmpty
<1>4. QED
  BY <1>1, <1>2, <1>3

\* Taking the first element moves every other one down by a place.
LEMMA OccurrencesTail ==
  ASSUME NEW s \in Seq(Objects), s # <<>>, NEW o
  PROVE  Occurrences(o, s) = Occurrences(o, Tail(s)) + (IF Head(s) = o THEN 1 ELSE 0)
<1> DEFINE S == {i \in 1..Len(s) : s[i] = o}
           T == {i \in 1..Len(Tail(s)) : Tail(s)[i] = o}
           down == [i \in S \ {1} |-> i - 1]
<1>1. /\ Len(s) \in Nat \ {0}
      /\ Tail(s) \in Seq(Objects)
      /\ Len(Tail(s)) = Len(s) - 1
      /\ \A i \in 1..(Len(s) - 1) : Tail(s)[i] = s[i + 1]
      /\ Head(s) = s[1]
  BY HeadTailProperties, EmptySeq, LenProperties
<1>2. IsFiniteSet(S) /\ IsFiniteSet(T) /\ Cardinality(S) \in Nat /\ Cardinality(T) \in Nat
  BY <1>1, OccurrencesType, FS_CardinalityType
<1>3. down \in Bijection(S \ {1}, T)
  <2>1. \A i \in S \ {1} : i - 1 \in T
    BY <1>1
  <2>2. \A j \in T : j + 1 \in S \ {1} /\ down[j + 1] = j
    BY <1>1
  <2>3. \A i, k \in S \ {1} : down[i] = down[k] => i = k
    BY <1>1
  <2>4. QED
    BY <2>1, <2>2, <2>3 DEF Bijection, Injection, Surjection, IsInjective
<1>4. /\ Occurrences(o, s) = Cardinality(S)
      /\ Occurrences(o, Tail(s)) = Cardinality(T)
  BY DEF Occurrences
<1>5. 1 \in S <=> Head(s) = o
  BY <1>1
<1> HIDE DEF S, T, down
<1>6. ExistsBijection(S \ {1}, T)
  BY <1>3 DEF ExistsBijection
<1>7. /\ IsFiniteSet(S \ {1})
      /\ Cardinality(S \ {1}) = IF 1 \in S THEN Cardinality(S) - 1 ELSE Cardinality(S)
  BY <1>2, FS_RemoveElement
<1>8. Cardinality(T) = Cardinality(S \ {1})
  BY <1>6, <1>7, FS_Bijection
<1>9. QED
  BY <1>2, <1>4, <1>5, <1>7, <1>8


-----------------------------------------------------------------------------
(* One owner                                                               *)

LEMMA RecordingsType ==
  ASSUME NEW ev \in Recordings
  PROVE  ev \in EventFields
<1>1. Deltas \subseteq Int /\ Samples \subseteq Int /\ Times \subseteq Nat
  BY PoolAssumption DEF PoolAssumption
<1>2. CASE ev \in [typ : {"counter"}, value : Deltas, uniqueID : {None}, ts : Times]
  BY <1>1, <1>2 DEF EventFields
<1>3. CASE ev \in [typ : {"value"}, value : Samples, uniqueID : {None}, ts : Times]
  BY <1>1, <1>3 DEF EventFields
<1>4. CASE ev \in [typ : {"unique"}, value : {0}, uniqueID : UniqueIds, ts : {0}]
  BY <1>4 DEF EventFields
<1>5. QED
  BY <1>2, <1>3, <1>4 DEF Recordings

LEMMA HeldType ==
  ASSUME FlowTypeOK
  PROVE  held \in Seq(Objects)
<1>1. <<>> \in Seq(Objects) /\ \A o \in Objects : <<o>> \in Seq(Objects)
  OBVIOUS
<1>2. QED
  BY <1>1 DEF FlowTypeOK

\* Releasing a sequence of objects: each is in the pool once more for every time it
\* occurs, and what stays outside the pool stays filled.
LEMMA ReleaseKeeps ==
  ASSUME FlowTypeOK, Filled, NEW s \in Seq(Objects), releaseEvents(s)
  PROVE  /\ pool' \in [Objects -> Nat]
         /\ \A o \in Objects : pool'[o] = pool[o] + Occurrences(o, s)
         /\ event' \in [Objects -> EventFields]
         /\ array' \in [Objects -> Series \cup {None}]
         /\ Filled'
<1>1. /\ pool' = [o \in Objects |-> pool[o] + Occurrences(o, s)]
      /\ array' = array
  BY DEF releaseEvents, Occurrences
<1>2. \A o \in Objects : pool[o] \in Nat /\ Occurrences(o, s) \in Nat
  BY OccurrencesType DEF FlowTypeOK
<1>3. /\ pool' \in [Objects -> Nat]
      /\ \A o \in Objects : pool'[o] = pool[o] + Occurrences(o, s)
  BY <1>1, <1>2
<1>4. \A o \in Objects :
        \/ event'[o] = event[o]
        \/ event'[o] = [event[o] EXCEPT !.typ = "none", !.value = 0, !.uniqueID = None]
  BY DEF releaseEvents
<1>5. /\ DOMAIN event' = Objects
      /\ event' = [o \in Objects |-> event'[o]]
  BY DEF releaseEvents
<1>6. \A o \in Objects :
        event'[o] \in EventFields
  <2>1. \A e \in EventFields :
          [e EXCEPT !.typ = "none", !.value = 0, !.uniqueID = None] \in EventFields
    <3>1. \A e \in EventFields : [e EXCEPT !.typ = "none"] \in EventFields
      BY DEF EventFields
    <3>2. \A e \in EventFields : [e EXCEPT !.value = 0] \in EventFields
      BY DEF EventFields
    <3>3. \A e \in EventFields : [e EXCEPT !.uniqueID = None] \in EventFields
      BY DEF EventFields
    <3>4. QED
      BY <3>1, <3>2, <3>3
  <2>2. \A o \in Objects : event[o] \in EventFields
    BY DEF FlowTypeOK
  <2>3. QED
    BY <1>4, <2>1, <2>2
<1>7. event' \in [Objects -> EventFields]
  BY <1>5, <1>6
<1>8. Filled'
  <2>1. SUFFICES ASSUME NEW o \in Objects, pool'[o] = 0
                 PROVE  event'[o] \in Recordings /\ array'[o] \in Series
    BY DEF Filled
  <2>2. pool[o] = 0 /\ Occurrences(o, s) = 0
    BY <1>2, <1>3, <2>1
  <2>3. ~ \E i \in 1..Len(s) : s[i] = o
    <3>1. SUFFICES ASSUME NEW i \in 1..Len(s), s[i] = o PROVE FALSE
      OBVIOUS
    <3>2. Occurrences(o, s) >= 1
      BY <3>1, OccurrencesPositive
    <3>3. QED
      BY <2>2, <3>2
  <2>4. event'[o] = event[o]
    BY <2>3 DEF releaseEvents
  <2>5. QED
    BY <1>1, <2>2, <2>4 DEF Filled
<1>9. QED
  BY <1>1, <1>3, <1>7, <1>8 DEF FlowTypeOK

\* A step that touches neither the objects nor where they are.
LEMMA FlowFrame ==
  ASSUME FlowInv, UNCHANGED <<pool, event, array, held, queue, batch>>,
         added' \in 0..Len(batch), pc' # "build" => added' = 0
  PROVE  FlowInv'
BY DEF FlowInv, FlowTypeOK, OneOwner, Filled, Occurrences

LEMMA BorrowKeeps ==
  ASSUME FlowInv, NEW o \in Objects, NEW x \in Series, NEW ev \in Recordings,
         Borrow(o, x, ev)
  PROVE  FlowInv'
<1>1. /\ pool[o] > 0 /\ held = <<>> /\ held' = <<o>>
      /\ pool' = [pool EXCEPT ![o] = @ - 1]
      /\ event' = [event EXCEPT ![o] = ev]
      /\ array' = [array EXCEPT ![o] = x]
      /\ UNCHANGED <<queue, batch, pc, added>>
  BY DEF Borrow, borrowEvent
<1>2. pool \in [Objects -> Nat] /\ queue \in Seq(Objects) /\ batch \in Seq(Objects)
  BY DEF FlowInv, FlowTypeOK
<1>3. FlowTypeOK'
  BY <1>1, <1>2, RecordingsType DEF FlowInv, FlowTypeOK
<1>4. OneOwner'
  <2>1. SUFFICES ASSUME NEW u \in Objects
                 PROVE  pool'[u] + Occurrences(u, held') + Occurrences(u, queue')
                          + Occurrences(u, batch') = 1
    BY DEF OneOwner, Occurrences
  <2>2. /\ pool[u] \in Nat
        /\ Occurrences(u, queue) \in Nat /\ Occurrences(u, batch) \in Nat
    BY <1>2, OccurrencesType
  <2>3. pool[u] + Occurrences(u, held) + Occurrences(u, queue)
          + Occurrences(u, batch) = 1
    BY DEF FlowInv, OneOwner
  <2>4. /\ Occurrences(u, held) = 0
        /\ Occurrences(u, held') = IF o = u THEN 1 ELSE 0
    BY <1>1, OccurrencesEmpty, OccurrencesOne
  <2>5. pool'[u] = IF o = u THEN pool[u] - 1 ELSE pool[u]
    BY <1>1, <1>2
  <2>6. /\ Occurrences(u, queue') = Occurrences(u, queue)
        /\ Occurrences(u, batch') = Occurrences(u, batch)
    BY <1>1
  <2>7. QED
    BY <2>2, <2>3, <2>4, <2>5, <2>6
<1>5. Filled'
  BY <1>1, <1>2 DEF FlowInv, FlowTypeOK, Filled
<1>6. QED
  BY <1>3, <1>4, <1>5 DEF FlowInv

LEMMA EnqueueKeeps ==
  ASSUME FlowInv, Enqueue
  PROVE  FlowInv'
<1>1. PICK o \in Objects : held = <<o>>
  BY DEF FlowInv, FlowTypeOK, Enqueue
<1>2. /\ held' = <<>> /\ held[1] = o /\ held \in Seq(Objects)
      /\ UNCHANGED <<batch, pc, added>>
  BY <1>1 DEF Enqueue
<1>3. pool \in [Objects -> Nat] /\ queue \in Seq(Objects) /\ batch \in Seq(Objects)
  BY DEF FlowInv, FlowTypeOK
<1>4. \A u \in Objects :
        /\ pool[u] \in Nat
        /\ Occurrences(u, queue) \in Nat /\ Occurrences(u, batch) \in Nat
        /\ Occurrences(u, held) = IF o = u THEN 1 ELSE 0
        /\ Occurrences(u, held') = 0
        /\ Occurrences(u, batch') = Occurrences(u, batch)
        /\ pool[u] + Occurrences(u, held) + Occurrences(u, queue)
             + Occurrences(u, batch) = 1
  BY <1>1, <1>2, <1>3, OccurrencesType, OccurrencesEmpty, OccurrencesOne
     DEF FlowInv, OneOwner
<1>5. CASE Len(queue) < QueueSize
  <2>1. queue' = Append(queue, o) /\ UNCHANGED <<pool, event, array>>
    BY <1>2, <1>5 DEF Enqueue
  <2>2. FlowTypeOK'
    BY <1>2, <1>3, <2>1, AppendProperties DEF FlowInv, FlowTypeOK
  <2>3. \A u \in Objects :
          /\ Occurrences(u, queue') = Occurrences(u, queue) + (IF o = u THEN 1 ELSE 0)
          /\ pool'[u] = pool[u]
    BY <1>3, <2>1, OccurrencesAppend
  <2>4. OneOwner'
    <3>1. SUFFICES ASSUME NEW u \in Objects
                   PROVE  pool'[u] + Occurrences(u, held') + Occurrences(u, queue')
                            + Occurrences(u, batch') = 1
      BY DEF OneOwner, Occurrences
    <3>2. QED
      BY <1>4, <2>3
  <2>5. Filled'
    BY <2>1 DEF FlowInv, Filled
  <2>6. QED
    BY <2>2, <2>4, <2>5 DEF FlowInv
<1>6. CASE ~(Len(queue) < QueueSize)
  <2>1. queue' = queue /\ releaseEvents(held)
    BY <1>6 DEF Enqueue
  <2>2. /\ pool' \in [Objects -> Nat]
        /\ \A u \in Objects : pool'[u] = pool[u] + Occurrences(u, held)
        /\ event' \in [Objects -> EventFields]
        /\ array' \in [Objects -> Series \cup {None}]
        /\ Filled'
    BY <1>2, <2>1, ReleaseKeeps DEF FlowInv
  <2>3. FlowTypeOK'
    BY <1>2, <2>1, <2>2 DEF FlowInv, FlowTypeOK
  <2>4. OneOwner'
    <3>1. SUFFICES ASSUME NEW u \in Objects
                   PROVE  pool'[u] + Occurrences(u, held') + Occurrences(u, queue')
                            + Occurrences(u, batch') = 1
      BY DEF OneOwner, Occurrences
    <3>2. Occurrences(u, queue') = Occurrences(u, queue)
      BY <2>1
    <3>3. QED
      BY <1>4, <2>2, <3>2
  <2>5. QED
    BY <2>2, <2>3, <2>4 DEF FlowInv
<1>7. QED
  BY <1>5, <1>6

LEMMA ReceiveKeeps ==
  ASSUME FlowInv, Receive
  PROVE  FlowInv'
<1>1. /\ queue # <<>> /\ pc = "select"
      /\ batch' = Append(batch, Head(queue)) /\ queue' = Tail(queue)
      /\ UNCHANGED <<pool, event, array, held, pc, added>>
  BY DEF Receive
<1>2. pool \in [Objects -> Nat] /\ queue \in Seq(Objects) /\ batch \in Seq(Objects)
  BY DEF FlowInv, FlowTypeOK
<1>3. Head(queue) \in Objects /\ Tail(queue) \in Seq(Objects)
  BY <1>1, <1>2, HeadTailProperties
<1>4. FlowTypeOK'
  <2>1. batch' \in Seq(Objects) /\ Len(batch') = Len(batch) + 1
    BY <1>1, <1>2, <1>3, AppendProperties
  <2>2. added' = 0 /\ 0 \in 0..Len(batch')
    BY <1>1, <1>2, <2>1, LenProperties DEF FlowInv, FlowTypeOK
  <2>3. QED
    BY <1>1, <1>3, <2>1, <2>2 DEF FlowInv, FlowTypeOK
<1>5. OneOwner'
  <2>1. SUFFICES ASSUME NEW u \in Objects
                 PROVE  pool'[u] + Occurrences(u, held') + Occurrences(u, queue')
                          + Occurrences(u, batch') = 1
    BY DEF OneOwner, Occurrences
  <2>2. /\ Occurrences(u, queue) = Occurrences(u, queue')
                                   + (IF Head(queue) = u THEN 1 ELSE 0)
        /\ Occurrences(u, batch') = Occurrences(u, batch)
                                   + (IF Head(queue) = u THEN 1 ELSE 0)
    BY <1>1, <1>2, <1>3, OccurrencesTail, OccurrencesAppend
  <2>3. /\ pool[u] \in Nat /\ Occurrences(u, held) \in Nat
        /\ Occurrences(u, queue') \in Nat /\ Occurrences(u, batch) \in Nat
    BY <1>1, <1>2, <1>3, HeldType, OccurrencesType
       DEF FlowInv, FlowTypeOK
  <2>4. pool[u] + Occurrences(u, held) + Occurrences(u, queue)
          + Occurrences(u, batch) = 1
    BY DEF FlowInv, OneOwner
  <2>5. pool'[u] = pool[u] /\ Occurrences(u, held') = Occurrences(u, held)
    BY <1>1
  <2>6. QED
    BY <2>2, <2>3, <2>4, <2>5
<1>6. Filled'
  BY <1>1 DEF FlowInv, Filled
<1>7. QED
  BY <1>4, <1>5, <1>6 DEF FlowInv

LEMMA AbsorbKeeps ==
  ASSUME FlowInv, Absorb
  PROVE  FlowInv'
<1> DEFINE h == Head(queue)
<1>1. /\ queue # <<>> /\ queue' = Tail(queue)
      /\ releaseEvents(<<h>>)
      /\ UNCHANGED <<held, batch, pc, added>>
  BY DEF Absorb
<1>2. pool \in [Objects -> Nat] /\ queue \in Seq(Objects) /\ batch \in Seq(Objects)
  BY DEF FlowInv, FlowTypeOK
<1>3. h \in Objects /\ Tail(queue) \in Seq(Objects)
  BY <1>1, <1>2, HeadTailProperties
<1>4. <<h>> \in Seq(Objects)
  BY <1>3
<1>5. /\ pool' \in [Objects -> Nat]
      /\ \A u \in Objects : pool'[u] = pool[u] + Occurrences(u, <<h>>)
      /\ event' \in [Objects -> EventFields]
      /\ array' \in [Objects -> Series \cup {None}]
      /\ Filled'
  BY <1>1, <1>4, ReleaseKeeps DEF FlowInv
<1>6. FlowTypeOK'
  BY <1>1, <1>3, <1>5 DEF FlowInv, FlowTypeOK
<1>7. OneOwner'
  <2>1. SUFFICES ASSUME NEW u \in Objects
                 PROVE  pool'[u] + Occurrences(u, held') + Occurrences(u, queue')
                          + Occurrences(u, batch') = 1
    BY DEF OneOwner, Occurrences
  <2>2. /\ Occurrences(u, queue) = Occurrences(u, queue') + (IF h = u THEN 1 ELSE 0)
        /\ pool'[u] = pool[u] + (IF h = u THEN 1 ELSE 0)
    BY <1>1, <1>2, <1>3, <1>5, OccurrencesTail, OccurrencesOne
  <2>3. /\ pool[u] \in Nat /\ Occurrences(u, held) \in Nat
        /\ Occurrences(u, queue') \in Nat /\ Occurrences(u, batch) \in Nat
    BY <1>1, <1>2, <1>3, HeldType, OccurrencesType
       DEF FlowInv, FlowTypeOK
  <2>4. pool[u] + Occurrences(u, held) + Occurrences(u, queue)
          + Occurrences(u, batch) = 1
    BY DEF FlowInv, OneOwner
  <2>5. /\ Occurrences(u, held') = Occurrences(u, held)
        /\ Occurrences(u, batch') = Occurrences(u, batch)
    BY <1>1
  <2>6. QED
    BY <2>2, <2>3, <2>4, <2>5
<1>8. QED
  BY <1>5, <1>6, <1>7 DEF FlowInv

LEMMA ReleaseBatchKeeps ==
  ASSUME FlowInv, Release
  PROVE  FlowInv'
<1>1. /\ pc = "release" /\ batch' = <<>> /\ pc' = "select"
      /\ releaseEvents(batch)
      /\ UNCHANGED <<held, queue, added>>
  BY DEF Release
<1>2. pool \in [Objects -> Nat] /\ queue \in Seq(Objects) /\ batch \in Seq(Objects)
  BY DEF FlowInv, FlowTypeOK
<1>3. /\ pool' \in [Objects -> Nat]
      /\ \A u \in Objects : pool'[u] = pool[u] + Occurrences(u, batch)
      /\ event' \in [Objects -> EventFields]
      /\ array' \in [Objects -> Series \cup {None}]
      /\ Filled'
  BY <1>1, <1>2, ReleaseKeeps DEF FlowInv
<1>4. FlowTypeOK'
  <2>1. batch' \in Seq(Objects) /\ added' = 0 /\ 0 \in 0..Len(batch')
    BY <1>1 DEF FlowInv, FlowTypeOK
  <2>2. QED
    BY <1>1, <1>3, <2>1 DEF FlowInv, FlowTypeOK
<1>5. OneOwner'
  <2>1. SUFFICES ASSUME NEW u \in Objects
                 PROVE  pool'[u] + Occurrences(u, held') + Occurrences(u, queue')
                          + Occurrences(u, batch') = 1
    BY DEF OneOwner, Occurrences
  <2>2. /\ pool[u] \in Nat /\ Occurrences(u, held) \in Nat
        /\ Occurrences(u, queue) \in Nat /\ Occurrences(u, batch) \in Nat
    BY <1>2, HeldType, OccurrencesType
       DEF FlowInv, FlowTypeOK
  <2>3. pool[u] + Occurrences(u, held) + Occurrences(u, queue)
          + Occurrences(u, batch) = 1
    BY DEF FlowInv, OneOwner
  <2>4. /\ Occurrences(u, held') = Occurrences(u, held)
        /\ Occurrences(u, queue') = Occurrences(u, queue)
        /\ Occurrences(u, batch') = 0
    BY <1>1, OccurrencesEmpty
  <2>5. QED
    BY <1>3, <2>2, <2>3, <2>4
<1>6. QED
  BY <1>3, <1>4, <1>5 DEF FlowInv


-----------------------------------------------------------------------------
(* Walking a bucket                                                        *)

LEMMA LeastNat ==
  ASSUME NEW T, T \subseteq Nat, T # {}
  PROVE  \E m \in T : \A k \in T : m <= k
<1>1. PICK m \in T : \A k \in T : ~(<<k, m>> \in OpToRel(<, Nat))
  BY NatLessThanWellFounded, WFMin
<1>2. ASSUME NEW k \in T PROVE m <= k
  <2>1. ~(<<k, m>> \in OpToRel(<, Nat))
    BY <1>1
  <2>2. k \in Nat /\ m \in Nat
    OBVIOUS
  <2>3. ~(k < m)
    BY <2>1, <2>2 DEF OpToRel
  <2>4. QED
    BY <2>2, <2>3
<1>3. QED
  BY <1>2

LEMMA GreatestNat ==
  ASSUME NEW N \in Nat, NEW T, T \subseteq 0..N, T # {}
  PROVE  \E m \in T : \A k \in T : k <= m
<1> DEFINE U == {N - t : t \in T}
<1>1. U \subseteq Nat /\ U # {}
  <2>1. \A t \in T : N - t \in Nat
    OBVIOUS
  <2>2. QED
    BY <2>1
<1>2. PICK u \in U : \A k \in U : u <= k
  BY <1>1, LeastNat
<1>3. PICK m \in T : u = N - m
  OBVIOUS
<1>4. ASSUME NEW k \in T PROVE k <= m
  <2>1. N - m <= N - k
    BY <1>2, <1>3
  <2>2. QED
    BY <2>1
<1>5. QED
  BY <1>4

\* f tells, from each place, where a walk down the links ends: at 0 or at a place of
\* stop.
IsWalk(f, N, next, stop) ==
  f = [j \in 0..N |-> IF j = 0 \/ j \in stop THEN j ELSE f[next[j]]]

\* Where the links lead to ever lower places there is such a function.
LEMMA WalkExists ==
  ASSUME NEW N \in Nat, NEW next, NEW stop,
         \A j \in 1..N : next[j] \in 0..(j - 1)
  PROVE  \E f : IsWalk(f, N, next, stop)
<1> DEFINE bad == {n \in 0..N : ~ \E f : IsWalk(f, n, next, stop)}
<1>1. SUFFICES ASSUME bad # {} PROVE FALSE
  <2>1. N \notin bad
    BY <1>1
  <2>2. QED
    BY <2>1
<1>2. PICK m \in bad : \A k \in bad : m <= k
  <2>1. bad \subseteq Nat
    OBVIOUS
  <2> HIDE DEF bad
  <2>2. QED
    BY <1>1, <2>1, LeastNat
<1>3. m \in 0..N
  OBVIOUS
<1>4. m # 0
  <2>1. SUFFICES ASSUME m = 0 PROVE FALSE
    OBVIOUS
  <2>2. IsWalk([j \in 0..0 |-> 0], 0, next, stop)
    BY DEF IsWalk
  <2>3. \E f : IsWalk(f, m, next, stop)
    BY <2>1, <2>2
  <2>4. QED
    BY <2>3
<1>5. m - 1 \in 0..N /\ m - 1 \notin bad
  <2>1. m - 1 \in 0..N /\ ~(m <= m - 1)
    BY <1>3, <1>4
  <2> HIDE DEF bad
  <2>2. QED
    BY <1>2, <2>1
<1>6. PICK g : IsWalk(g, m - 1, next, stop)
  BY <1>5
<1> DEFINE e == IF m \in stop THEN m ELSE g[next[m]]
           f == [j \in 0..m |-> IF j = m THEN e ELSE g[j]]
<1>7. ASSUME NEW j \in 0..m
      PROVE  f[j] = IF j = 0 \/ j \in stop THEN j ELSE f[next[j]]
  <2>1. CASE j = m
    <3>1. next[m] \in 0..(m - 1)
      BY <1>3, <1>4
    <3>2. f[next[m]] = g[next[m]] /\ f[m] = e
      BY <1>3, <1>4, <3>1
    <3>3. QED
      BY <1>4, <2>1, <3>2
  <2>2. CASE j # m
    <3>1. j \in 0..(m - 1)
      BY <1>3, <2>2
    <3>2. f[j] = g[j]
      BY <2>2
    <3>3. g[j] = IF j = 0 \/ j \in stop THEN j ELSE g[next[j]]
      BY <1>6, <3>1 DEF IsWalk
    <3>4. CASE j = 0
      BY <3>2, <3>3, <3>4
    <3>5. CASE j # 0
      <4>1. next[j] \in 0..(j - 1)
        BY <1>3, <3>1, <3>5
      <4>2. next[j] \in 0..m /\ next[j] # m
        BY <1>3, <3>1, <4>1
      <4>3. f[next[j]] = g[next[j]]
        BY <4>2
      <4>4. QED
        BY <3>2, <3>3, <4>3
    <3>6. QED
      BY <3>4, <3>5
  <2>3. QED
    BY <2>1, <2>2
<1>8. IsWalk(f, m, next, stop)
  BY <1>7 DEF IsWalk
<1>9. QED
  BY <1>8


\* The labels of an entry read the same whatever happens to the arrays.
LEMMA OwnLabelsRead ==
  ASSUME OwnLabels, NEW j \in 1..Len(entries)
  PROVE  LabelsOf(entries[j].labels) = entries[j].labels /\ entries[j].labels \in Series
BY PoolAssumption DEF OwnLabels, LabelsOf, PoolAssumption

\* The links of the table, place by place.
LEMMA TableLinks ==
  ASSUME Buckets
  PROVE  /\ Len(entries) \in Nat
         /\ \A j \in 1..Len(entries) : entries[j].next \in 0..(j - 1)
         /\ \A h \in Hashes : aggs[h] \in 0..Len(entries)
<1>1. /\ entries \in Seq([labels : Series \cup Objects, next : 0..Len(entries),
                          payloadIndex : 1..Len(counters)])
      /\ aggs \in [Hashes -> 0..Len(entries)]
      /\ \A j \in 1..Len(entries) : entries[j].next < j
  BY DEF Buckets, BuilderTypeOK
<1>2. Len(entries) \in Nat
  BY <1>1, LenProperties
<1>3. \A j \in 1..Len(entries) : entries[j].next \in 0..Len(entries)
  <2>1. \A j \in 1..Len(entries) :
          entries[j] \in [labels : Series \cup Objects, next : 0..Len(entries),
                          payloadIndex : 1..Len(counters)]
    BY <1>1, ElementOfSeq, Zenon
  <2>2. QED
    BY <2>1
<1>4. QED
  BY <1>1, <1>2, <1>3

\* Find follows its own equation.
LEMMA FindWalks ==
  ASSUME Buckets, OwnLabels, NEW x
  PROVE  \E walk :
           /\ \A i : Find(x, i) = walk[i]
           /\ \A j \in 0..Len(entries) :
                walk[j] = IF j = 0 \/ (j \in 1..Len(entries) /\ entries[j].labels = x)
                            THEN j ELSE walk[entries[j].next]
<1> DEFINE N == Len(entries)
           next == [j \in 1..N |-> entries[j].next]
           stop == {j \in 1..N : entries[j].labels = x}
           Eqn(f) == f = [j \in 0..Len(entries) |->
                            IF j = 0 \/ SameSeries(LabelsOf(entries[j].labels), x)
                              THEN j ELSE f[entries[j].next]]
           walk == CHOOSE f : Eqn(f)
<1>1. N \in Nat /\ \A j \in 1..N : next[j] \in 0..(j - 1)
  BY TableLinks
<1>2. \E f : IsWalk(f, N, next, stop)
  <2> HIDE DEF N, next, stop
  <2>1. QED
    BY <1>1, WalkExists
<1>3. \A f : IsWalk(f, N, next, stop) <=> Eqn(f)
  <2>1. SUFFICES ASSUME NEW f
                 PROVE  \A j \in 0..N :
                          (IF j = 0 \/ j \in stop THEN j ELSE f[next[j]]) =
                          (IF j = 0 \/ SameSeries(LabelsOf(entries[j].labels), x)
                             THEN j ELSE f[entries[j].next])
    <3> HIDE DEF N, next, stop
    <3>1. QED
      BY DEF N, IsWalk
  <2>2. SUFFICES ASSUME NEW j \in 0..N, j # 0
                 PROVE  /\ j \in stop <=> SameSeries(LabelsOf(entries[j].labels), x)
                        /\ next[j] = entries[j].next
    OBVIOUS
  <2>3. j \in 1..N
    BY <1>1, <2>2
  <2>4. QED
    BY <2>3, OwnLabelsRead DEF SameSeries
<1>4. Eqn(walk)
  BY <1>2, <1>3
<1>5. \A i : Find(x, i) = walk[i]
  BY DEF Find
<1>6. IsWalk(walk, N, next, stop)
  BY <1>3, <1>4
<1>7. \A j \in 0..N : walk[j] = IF j = 0 \/ j \in stop THEN j ELSE walk[next[j]]
  <2> HIDE DEF walk
  <2>1. QED
    BY <1>6 DEF IsWalk
<1>8. \A j \in 0..N : j # 0 => next[j] = entries[j].next
  BY <1>1
<1>9. QED
  <2>1. \A j \in 0..N :
          walk[j] = IF j = 0 \/ (j \in 1..Len(entries) /\ entries[j].labels = x)
                      THEN j ELSE walk[entries[j].next]
    <3> HIDE DEF walk
    <3>1. QED
      BY <1>7, <1>8
  <2> HIDE DEF walk
  <2>2. QED
    BY <1>5, <2>1


\* From every head the links lead through the entries of that hash and no others.
Chained ==
  \A h \in Hashes : \A j \in 1..Len(entries) :
    Hash[entries[j].labels] = h
      <=> \/ j = aggs[h]
          \/ \E k \in 1..Len(entries) :
               entries[k].next = j /\ Hash[entries[k].labels] = h

LEMMA BucketsRead ==
  ASSUME OwnLabels
  PROVE  Buckets <=> /\ BuilderTypeOK
                     /\ \A j \in 1..Len(entries) : entries[j].next < j
                     /\ Chained
<1>1. \A j \in 1..Len(entries) : LabelsOf(entries[j].labels) = entries[j].labels
  BY OwnLabelsRead
<1>2. QED
  BY <1>1 DEF Buckets, Chained

LEMMA BucketsReadNext ==
  ASSUME OwnLabels'
  PROVE  Buckets' <=> /\ BuilderTypeOK'
                      /\ \A j \in 1..Len(entries') : entries'[j].next < j
                      /\ Chained'
<1>1. \A j \in 1..Len(entries') :
        (IF entries'[j].labels \in Objects THEN array'[entries'[j].labels]
         ELSE entries'[j].labels) = entries'[j].labels
  BY PoolAssumption DEF OwnLabels, PoolAssumption
<1>2. QED
  BY <1>1 DEF Buckets, Chained, LabelsOf

\* The lookup is right: it returns an entry of the series it is asked for, and finds
\* none only if there is none, whatever series share its bucket.
LEMMA FindCorrect ==
  ASSUME Buckets, OwnLabels, NEW x \in Series
  PROVE  LET found == Find(x, aggs[Hash[x]])
         IN  /\ found \in 0..Len(entries)
             /\ found # 0 => entries[found].labels = x
             /\ found = 0 => \A j \in 1..Len(entries) : entries[j].labels # x
<1> DEFINE N == Len(entries)
<1>1. /\ N \in Nat
      /\ \A j \in 1..N : entries[j].next \in 0..(j - 1)
      /\ \A h \in Hashes : aggs[h] \in 0..N
  BY TableLinks
<1>2. Hash[x] \in Hashes
  BY BuilderAssumption DEF BuilderAssumption
<1>3. PICK walk :
        /\ \A i : Find(x, i) = walk[i]
        /\ \A j \in 0..N :
             walk[j] = IF j = 0 \/ (j \in 1..N /\ entries[j].labels = x)
                         THEN j ELSE walk[entries[j].next]
  BY FindWalks
<1> HIDE DEF N
<1>4. /\ walk[0] = 0
      /\ \A j \in 1..N : walk[j] = IF entries[j].labels = x THEN j
                                   ELSE walk[entries[j].next]
  BY <1>1, <1>3
<1> DEFINE Ends(j) == walk[j] \in 0..N /\ (walk[j] # 0 => entries[walk[j]].labels = x)
           bad == {j \in 0..N : ~Ends(j)}
<1>5. bad = {}
  <2>1. SUFFICES ASSUME bad # {} PROVE FALSE
    OBVIOUS
  <2>2. bad \subseteq Nat
    BY <1>1
  <2>3. PICK m \in bad : \A k \in bad : m <= k
    <3> HIDE DEF bad
    <3>1. QED
      BY <2>1, <2>2, LeastNat
  <2>4. m \in 1..N /\ ~Ends(m)
    <3>1. m \in 0..N /\ ~Ends(m)
      OBVIOUS
    <3>2. Ends(0)
      BY <1>1, <1>4
    <3>3. m # 0
      BY <3>1, <3>2
    <3>4. QED
      BY <1>1, <3>1, <3>3
  <2>5. entries[m].labels # x /\ walk[m] = walk[entries[m].next]
    BY <1>1, <1>4, <2>4
  <2>6. entries[m].next \in 0..N /\ ~(m <= entries[m].next)
    BY <1>1, <2>4
  <2>7. entries[m].next \notin bad
    <3> HIDE DEF bad
    <3>1. QED
      BY <2>3, <2>6
  <2>8. QED
    BY <2>4, <2>5, <2>6, <2>7
<1>6. \A j \in 0..N : Ends(j)
  BY <1>5
<1>7. aggs[Hash[x]] \in 0..N
  BY <1>1, <1>2
<1>8. ASSUME walk[aggs[Hash[x]]] = 0, NEW i \in 1..N, entries[i].labels = x
      PROVE  FALSE
  <2> DEFINE missed == {j \in 0..N : /\ j # 0 /\ Hash[entries[j].labels] = Hash[x]
                                     /\ walk[j] # 0}
  <2>1. i \in missed
    BY <1>1, <1>4, <1>8
  <2>2. PICK m \in missed : \A k \in missed : k <= m
    <3>1. missed \subseteq 0..N /\ missed # {}
      BY <2>1
    <3> HIDE DEF missed
    <3>2. QED
      BY <1>1, <3>1, GreatestNat
  <2>3. m \in 1..N /\ Hash[entries[m].labels] = Hash[x] /\ walk[m] # 0
    BY <1>1
  <2>4. \/ m = aggs[Hash[x]]
        \/ \E k \in 1..N : entries[k].next = m /\ Hash[entries[k].labels] = Hash[x]
    <3>1. Chained
      BY BucketsRead
    <3>2. QED
      BY <1>2, <2>3, <3>1 DEF Chained, N
  <2>5. PICK k \in 1..N : entries[k].next = m /\ Hash[entries[k].labels] = Hash[x]
    BY <1>8, <2>3, <2>4
  <2>6. k \in 0..N /\ k # 0 /\ ~(k <= m)
    BY <1>1, <2>3, <2>5
  <2>7. k \notin missed
    <3> HIDE DEF missed
    <3>1. QED
      BY <2>2, <2>6
  <2>8. walk[k] = 0
    BY <2>5, <2>6, <2>7
  <2>9. walk[k] = walk[m]
    BY <1>4, <2>5, <2>6, <2>8
  <2>10. QED
    BY <2>3, <2>8, <2>9
<1>9. QED
  BY <1>3, <1>6, <1>7, <1>8 DEF N


-----------------------------------------------------------------------------
(* The hash table                                                          *)

CounterLine == [labels : Series \cup Objects, value : Int, time : Nat]
Entry(n, m) == [labels : Series \cup Objects, next : 0..n, payloadIndex : 1..m]

\* A table whose bounds grow keeps its entries.
LEMMA EntriesWiden ==
  ASSUME NEW n \in Nat, NEW m \in Nat, NEW n2 \in Nat, NEW m2 \in Nat,
         n <= n2, m <= m2, NEW s \in Seq(Entry(n, m))
  PROVE  s \in Seq(Entry(n2, m2))
<1>1. \A j \in 1..Len(s) : s[j] \in Entry(n, m)
  BY ElementOfSeq
<1>2. 0..n \subseteq 0..n2 /\ 1..m \subseteq 1..m2
  OBVIOUS
<1>3. Entry(n, m) \subseteq Entry(n2, m2)
  BY <1>2 DEF Entry
<1>4. Len(s) \in Nat /\ s \in [1..Len(s) -> Entry(n, m)]
  BY LenProperties
<1>5. s \in [1..Len(s) -> Entry(n2, m2)]
  BY <1>3, <1>4
<1>6. QED
  BY <1>4, <1>5, SeqDef

LEMMA BuilderTypes ==
  BuilderTypeOK <=>
    /\ counters \in Seq(CounterLine) /\ values \in Seq(CounterLine)
    /\ uniques \in Seq([labels : Series \cup Objects, id : UniqueIds])
    /\ entries \in Seq(Entry(Len(entries), Len(counters)))
    /\ aggs \in [Hashes -> 0..Len(entries)]
    /\ Len(entries) <= MaxSeriesPerBatch
BY DEF BuilderTypeOK, CounterLine, Entry

LEMMA BuilderTypesNext ==
  BuilderTypeOK' <=>
    /\ counters' \in Seq(CounterLine) /\ values' \in Seq(CounterLine)
    /\ uniques' \in Seq([labels : Series \cup Objects, id : UniqueIds])
    /\ entries' \in Seq(Entry(Len(entries'), Len(counters')))
    /\ aggs' \in [Hashes -> 0..Len(entries')]
    /\ Len(entries') <= MaxSeriesPerBatch
BY DEF BuilderTypeOK, CounterLine, Entry

\* A step that leaves the table alone, whatever it does to the lines of the payload
\* or to the arrays of the objects.
LEMMA TableFrame ==
  ASSUME TableInv, UNCHANGED <<entries, aggs>>,
         counters' \in Seq(CounterLine), Len(counters) <= Len(counters'),
         values' \in Seq(CounterLine),
         uniques' \in Seq([labels : Series \cup Objects, id : UniqueIds])
  PROVE  TableInv'
<1>1. OwnLabels' /\ SeriesOnce'
  BY DEF TableInv, OwnLabels, SeriesOnce
<1>2. /\ counters \in Seq(CounterLine)
      /\ entries \in Seq(Entry(Len(entries), Len(counters)))
      /\ aggs \in [Hashes -> 0..Len(entries)]
      /\ Len(entries) <= MaxSeriesPerBatch
      /\ \A j \in 1..Len(entries) : entries[j].next < j
      /\ Chained
  BY BucketsRead, BuilderTypes DEF TableInv
<1>3. Len(entries) \in Nat /\ Len(counters) \in Nat /\ Len(counters') \in Nat
  BY <1>2, LenProperties
<1>4. entries \in Seq(Entry(Len(entries), Len(counters')))
  BY <1>2, <1>3, EntriesWiden
<1>5. BuilderTypeOK'
  BY <1>2, <1>4, BuilderTypesNext
<1>6. Chained' /\ \A j \in 1..Len(entries') : entries'[j].next < j
  BY <1>2 DEF Chained
<1>7. QED
  BY <1>1, <1>5, <1>6, BucketsReadNext DEF TableInv

LEMMA TableFresh ==
  ASSUME newBatchBuilder
  PROVE  TableInv'
<1>1. /\ counters' = <<>> /\ values' = <<>> /\ uniques' = <<>> /\ entries' = <<>>
      /\ aggs' = [h \in Hashes |-> 0]
  BY DEF newBatchBuilder
<1>2. OwnLabels' /\ SeriesOnce'
  BY <1>1 DEF OwnLabels, SeriesOnce
<1>3. BuilderTypeOK'
  BY <1>1, BuilderTypesNext, BuilderAssumption DEF BuilderAssumption
<1>4. Chained' /\ \A j \in 1..Len(entries') : entries'[j].next < j
  BY <1>1 DEF Chained
<1>5. QED
  BY <1>2, <1>3, <1>4, BucketsReadNext DEF TableInv

\* A new entry goes in front of the list of its bucket.
LEMMA EntryAdded ==
  ASSUME TableInv, NEW x \in Series,
         \A j \in 1..Len(entries) : entries[j].labels # x,
         Len(entries) < MaxSeriesPerBatch,
         counters' \in Seq(CounterLine), Len(counters') = Len(counters) + 1,
         entries' = Append(entries, [labels |-> x, next |-> aggs[Hash[x]],
                                     payloadIndex |-> Len(counters) + 1]),
         aggs' = [aggs EXCEPT ![Hash[x]] = Len(entries) + 1],
         UNCHANGED <<values, uniques>>
  PROVE  TableInv'
<1> DEFINE N == Len(entries)
           new == [labels |-> x, next |-> aggs[Hash[x]],
                   payloadIndex |-> Len(counters) + 1]
<1>1. /\ counters \in Seq(CounterLine) /\ values \in Seq(CounterLine)
      /\ uniques \in Seq([labels : Series \cup Objects, id : UniqueIds])
      /\ entries \in Seq(Entry(N, Len(counters)))
      /\ aggs \in [Hashes -> 0..N]
      /\ \A j \in 1..N : entries[j].next < j
      /\ Chained /\ OwnLabels /\ SeriesOnce
  BY BucketsRead, BuilderTypes DEF TableInv
<1>2. /\ N \in Nat /\ Len(counters) \in Nat /\ Hash[x] \in Hashes
      /\ Hash \in [Series -> Hashes] /\ MaxSeriesPerBatch \in Nat
      /\ aggs[Hash[x]] \in 0..N
      /\ \A j \in 1..N : entries[j].next \in 0..(j - 1)
  BY <1>1, LenProperties, TableLinks, BuilderAssumption DEF BuilderAssumption, TableInv
<1>3. new \in Entry(N + 1, Len(counters'))
  <2>1. x \in Series \cup Objects /\ aggs[Hash[x]] \in 0..(N + 1)
        /\ Len(counters) + 1 \in 1..Len(counters')
    BY <1>2
  <2>2. QED
    BY <2>1 DEF Entry
<1>4. entries \in Seq(Entry(N + 1, Len(counters')))
  <2>1. N + 1 \in Nat /\ Len(counters') \in Nat /\ N <= N + 1
        /\ Len(counters) <= Len(counters')
    BY <1>2
  <2>2. QED
    BY <1>1, <1>2, <2>1, EntriesWiden
<1>5. /\ entries' \in Seq(Entry(N + 1, Len(counters')))
      /\ Len(entries') = N + 1
      /\ \A j \in 1..N : entries'[j] = entries[j]
      /\ entries'[N + 1] = new
  BY <1>3, <1>4, AppendProperties
<1>6. new.labels = x /\ new.next = aggs[Hash[x]]
  OBVIOUS
<1>7. \A j \in 1..(N + 1) : j \in 1..N \/ j = N + 1
  BY <1>2
<1> HIDE DEF N, new
<1>8. aggs' \in [Hashes -> 0..(N + 1)]
  BY <1>1, <1>2 DEF N
<1>9. BuilderTypeOK'
  <2>1. Len(entries') <= MaxSeriesPerBatch
    BY <1>2, <1>5 DEF N
  <2>2. QED
    BY <1>1, <1>5, <1>8, <2>1, BuilderTypesNext
<1>10. OwnLabels'
  BY <1>1, <1>5, <1>6, <1>7 DEF OwnLabels, N
<1>11. SeriesOnce'
  <2>1. SUFFICES ASSUME NEW j \in 1..(N + 1), NEW k \in 1..(N + 1),
                        entries'[j].labels = entries'[k].labels
                 PROVE  j = k
    BY <1>5 DEF SeriesOnce
  <2>2. \A i \in 1..N : entries[i].labels # x
    BY DEF N
  <2>3. QED
    BY <1>1, <1>5, <1>6, <1>7, <2>1, <2>2 DEF SeriesOnce, N
<1>12. \A j \in 1..Len(entries') : entries'[j].next < j
  BY <1>1, <1>2, <1>5, <1>6, <1>7
<1>13. Chained'
  <2>1. SUFFICES ASSUME NEW h \in Hashes, NEW j \in 1..Len(entries')
                 PROVE  Hash[entries'[j].labels] = h
                          <=> \/ j = aggs'[h]
                              \/ \E k \in 1..Len(entries') :
                                   /\ entries'[k].next = j
                                   /\ Hash[entries'[k].labels] = h
    BY Zenon DEF Chained
  <2>2. /\ \A i \in 1..N : /\ Hash[entries'[i].labels] = Hash[entries[i].labels]
                           /\ entries'[i].next = entries[i].next
        /\ Hash[entries'[N + 1].labels] = Hash[x]
        /\ entries'[N + 1].next = aggs[Hash[x]]
    BY <1>5, <1>6
  <2>3. aggs'[h] = IF h = Hash[x] THEN N + 1 ELSE aggs[h]
    BY <1>1, <1>2 DEF N
  <2>4. aggs[h] \in 0..N
    BY <1>1
  <2>5. (\E k \in 1..Len(entries') : /\ entries'[k].next = j
                                     /\ Hash[entries'[k].labels] = h)
          <=> \/ \E k \in 1..N : entries[k].next = j /\ Hash[entries[k].labels] = h
              \/ j = aggs[Hash[x]] /\ h = Hash[x]
    <3>1. /\ 1..N \subseteq 1..(N + 1) /\ N + 1 \in 1..(N + 1)
          /\ Len(entries') = N + 1
      BY <1>2, <1>5
    <3>2. QED
      BY <1>7, <2>2, <3>1
  <2>6. CASE j = N + 1
    <3>1. ~ \E k \in 1..N : entries[k].next = j /\ Hash[entries[k].labels] = h
      BY <1>2, <2>6
    <3>2. j # aggs[Hash[x]] /\ j # aggs[h]
      BY <1>2, <2>4, <2>6
    <3>3. QED
      BY <2>2, <2>3, <2>5, <2>6, <3>1, <3>2
  <2>7. CASE j \in 1..N
    <3>1. Hash[entries[j].labels] = h
            <=> \/ j = aggs[h]
                \/ \E k \in 1..N : entries[k].next = j /\ Hash[entries[k].labels] = h
      BY <1>1, <2>7 DEF Chained, N
    <3>2. j # N + 1
      BY <1>2, <2>7
    <3>3. Hash[entries'[j].labels] = Hash[entries[j].labels]
      BY <2>2, <2>7
    <3>4. CASE h = Hash[x]
      <4>1. j # aggs'[h]
        BY <2>3, <3>2, <3>4
      <4>2. QED
        BY <2>5, <3>1, <3>3, <3>4, <4>1, Zenon
    <3>5. CASE h # Hash[x]
      <4>1. aggs'[h] = aggs[h]
        BY <2>3, <3>5
      <4>2. QED
        BY <2>5, <3>1, <3>3, <3>5, <4>1, Zenon
    <3>6. QED
      BY <3>4, <3>5
  <2>8. QED
    BY <1>5, <1>7, <2>1, <2>6, <2>7
<1>14. QED
  BY <1>9, <1>10, <1>11, <1>12, <1>13, BucketsReadNext DEF TableInv


LEMMA RecordingFields ==
  ASSUME NEW ev \in Recordings
  PROVE  /\ ev.value \in Int /\ ev.ts \in Nat
         /\ ev.typ = "unique" => ev.uniqueID \in UniqueIds
<1>1. ev \in EventFields
  BY RecordingsType
<1>2. ev.typ = "unique" => ev.uniqueID \in UniqueIds
  BY DEF Recordings
<1>3. QED
  BY <1>1, <1>2 DEF EventFields

\* An event that is added to the line of its series, or gets a line of its own.
LEMMA AddCounterKeeps ==
  ASSUME TableInv, NEW o \in Objects, event[o] \in Recordings, array[o] \in Series,
         addCounter(o)
  PROVE  TableInv'
<1> DEFINE x == array[o]
           d == event[o].value
           t == event[o].ts
           found == Find(x, aggs[Hash[x]])
<1>1. d \in Int /\ t \in Nat /\ x \in Series
  BY RecordingFields
<1>2. /\ counters \in Seq(CounterLine) /\ values \in Seq(CounterLine)
      /\ uniques \in Seq([labels : Series \cup Objects, id : UniqueIds])
      /\ entries \in Seq(Entry(Len(entries), Len(counters)))
      /\ Len(entries) <= MaxSeriesPerBatch
  BY BucketsRead, BuilderTypes DEF TableInv
<1>3. /\ found \in 0..Len(entries)
      /\ found = 0 => \A j \in 1..Len(entries) : entries[j].labels # x
  BY <1>1, FindCorrect DEF TableInv
<1>4. /\ \/ /\ found # 0
            /\ counters' = [counters EXCEPT
                              ![entries[found].payloadIndex].value = @ + d,
                              ![entries[found].payloadIndex].time = Later(@, t)]
            /\ UNCHANGED <<entries, aggs>>
         \/ /\ found = 0
            /\ counters' = Append(counters, [labels |-> x, value |-> d, time |-> t])
            /\ IF AggregationFull
                 THEN UNCHANGED <<entries, aggs>>
                 ELSE /\ entries' = Append(entries,
                           [labels |-> x, next |-> aggs[Hash[x]],
                            payloadIndex |-> Len(counters) + 1])
                      /\ aggs' = [aggs EXCEPT ![Hash[x]] = Len(entries) + 1]
      /\ UNCHANGED <<values, uniques>>
  BY DEF addCounter, cloneLabels, NextInBucket
<1>5. Len(counters) \in Nat /\ Len(entries) \in Nat
  BY <1>2, LenProperties
<1> HIDE DEF x, d, t, found
<1>6. CASE found # 0
  <2> DEFINE i == entries[found].payloadIndex
             c1 == [counters EXCEPT ![i].value = @ + d]
  <2>1. found \in 1..Len(entries)
    BY <1>3, <1>5, <1>6
  <2>2. entries[found] \in Entry(Len(entries), Len(counters))
    BY <1>2, <2>1, ElementOfSeq
  <2>3. i \in 1..Len(counters)
    BY <2>2 DEF Entry
  <2>4. /\ counters' = [c1 EXCEPT ![i].time = Later(@, t)]
        /\ UNCHANGED <<entries, aggs, values, uniques>>
    BY <1>4, <1>6
  <2>5. counters \in [1..Len(counters) -> CounterLine]
    BY <1>2, LenProperties
  <2> HIDE DEF i
  <2>6. c1 \in [1..Len(counters) -> CounterLine]
    <3>1. counters[i] \in CounterLine
      BY <2>3, <2>5
    <3>2. [counters[i] EXCEPT !.value = @ + d] \in CounterLine
      BY <1>1, <3>1 DEF CounterLine, d
    <3>3. c1 = [counters EXCEPT ![i] = [counters[i] EXCEPT !.value = @ + d]]
      BY <2>3, <2>5
    <3>4. QED
      BY <2>3, <2>5, <3>2, <3>3
  <2> HIDE DEF c1
  <2>7. counters' \in [1..Len(counters) -> CounterLine]
    <3>1. c1[i] \in CounterLine
      BY <2>3, <2>6
    <3>2. Later(c1[i].time, t) \in Nat
      BY <1>1, <3>1 DEF CounterLine, Later, t
    <3>3. [c1[i] EXCEPT !.time = Later(@, t)] \in CounterLine
      BY <3>1, <3>2 DEF CounterLine
    <3>4. counters' = [c1 EXCEPT ![i] = [c1[i] EXCEPT !.time = Later(@, t)]]
      BY <2>3, <2>4, <2>6
    <3>5. QED
      BY <2>3, <2>6, <3>3, <3>4
  <2>8. counters' \in Seq(CounterLine)
    BY <1>5, <2>7, SeqDef
  <2>9. Len(counters') = Len(counters)
    BY <1>5, <2>7, <2>8, LenProperties
  <2>10. QED
    BY <1>2, <1>5, <2>4, <2>8, <2>9, TableFrame
<1>7. CASE found = 0
  <2>1. counters' = Append(counters, [labels |-> x, value |-> d, time |-> t])
    BY <1>4, <1>7
  <2>2. [labels |-> x, value |-> d, time |-> t] \in CounterLine
    BY <1>1 DEF CounterLine, x, d, t
  <2>3. counters' \in Seq(CounterLine) /\ Len(counters') = Len(counters) + 1
    BY <1>2, <2>1, <2>2, AppendProperties
  <2>4. CASE AggregationFull
    <3>1. UNCHANGED <<entries, aggs, values, uniques>>
      BY <1>4, <1>7, <2>4
    <3>2. Len(counters) <= Len(counters')
      BY <1>5, <2>3
    <3>3. QED
      BY <1>2, <2>3, <3>1, <3>2, TableFrame
  <2>5. CASE ~AggregationFull
    <3>1. Len(entries) < MaxSeriesPerBatch
      BY <1>2, <1>5, <2>5, BuilderAssumption DEF AggregationFull, BuilderAssumption
    <3>2. /\ entries' = Append(entries, [labels |-> x, next |-> aggs[Hash[x]],
                                         payloadIndex |-> Len(counters) + 1])
          /\ aggs' = [aggs EXCEPT ![Hash[x]] = Len(entries) + 1]
          /\ UNCHANGED <<values, uniques>>
      BY <1>4, <1>7, <2>5
    <3>3. x \in Series /\ \A j \in 1..Len(entries) : entries[j].labels # x
      BY <1>1, <1>3, <1>7
    <3>4. QED
      BY <2>3, <3>1, <3>2, <3>3, EntryAdded
  <2>6. QED
    BY <2>4, <2>5
<1>8. QED
  BY <1>6, <1>7

LEMMA AddKeeps ==
  ASSUME TableInv, NEW o \in Objects, event[o] \in Recordings, array[o] \in Series,
         add(o)
  PROVE  TableInv'
<1>1. /\ counters \in Seq(CounterLine) /\ values \in Seq(CounterLine) /\ Len(counters) \in Nat
      /\ uniques \in Seq([labels : Series \cup Objects, id : UniqueIds])
  BY BucketsRead, BuilderTypes, LenProperties DEF TableInv
<1>2. CASE event[o].typ = "counter" /\ addCounter(o)
  BY <1>2, AddCounterKeeps
<1>3. CASE event[o].typ = "unique" /\ addUnique(o)
  <2>1. UNCHANGED <<counters, values, entries, aggs>>
    BY <1>3 DEF addUnique
  <2>2. uniques' = uniques \/ uniques' = Append(uniques, [labels |-> array[o],
                                                          id |-> event[o].uniqueID])
    BY <1>3 DEF addUnique, cloneLabels
  <2>3. event[o].uniqueID \in UniqueIds
    BY <1>3, RecordingFields
  <2>4. uniques' \in Seq([labels : Series \cup Objects, id : UniqueIds])
    <3>1. [labels |-> array[o], id |-> event[o].uniqueID]
            \in [labels : Series \cup Objects, id : UniqueIds]
      BY <2>3
    <3>2. CASE uniques' = uniques
      BY <1>1, <3>2
    <3>3. CASE uniques' = Append(uniques, [labels |-> array[o],
                                           id |-> event[o].uniqueID])
      BY <1>1, <3>1, <3>3, AppendProperties, Zenon
    <3>4. QED
      BY <2>2, <3>2, <3>3
  <2>5. QED
    BY <1>1, <2>1, <2>4, TableFrame
<1>4. CASE event[o].typ = "value" /\ addValue(o)
  <2> DEFINE e == [labels |-> array[o], value |-> event[o].value, time |-> event[o].ts]
  <2>1. values' = Append(values, e) /\ UNCHANGED <<counters, uniques, entries, aggs>>
    BY <1>4 DEF addValue, cloneLabels
  <2>2. e \in CounterLine
    BY RecordingFields DEF CounterLine
  <2> HIDE DEF e
  <2>3. values' \in Seq(CounterLine)
    BY <1>1, <2>1, <2>2, AppendProperties
  <2>4. QED
    BY <1>1, <2>1, <2>3, TableFrame
<1>5. QED
  BY <1>2, <1>3, <1>4 DEF add

\* A step that leaves the builder alone.
LEMMA BuilderFrame ==
  ASSUME TableInv, UNCHANGED builder
  PROVE  TableInv'
<1>1. /\ counters \in Seq(CounterLine) /\ values \in Seq(CounterLine) /\ Len(counters) \in Nat
      /\ uniques \in Seq([labels : Series \cup Objects, id : UniqueIds])
  BY BucketsRead, BuilderTypes, LenProperties DEF TableInv
<1>2. UNCHANGED <<counters, values, uniques, entries, aggs>>
  BY DEF builder
<1>3. QED
  BY <1>1, <1>2, TableFrame

-----------------------------------------------------------------------------
(* Sums over finite sets: what the fold of SumOver computes                *)

Any(s) == CHOOSE i \in s : TRUE

\* f adds up g over every set of D, one element at a time.
IsSum(f, g, D) ==
  f = [s \in D |-> IF s = {} THEN 0 ELSE g[Any(s)] + f[s \ {Any(s)}]]

\* Taking its element out of a set makes it smaller.
LEMMA AnyRemoved ==
  ASSUME NEW s, IsFiniteSet(s), s # {}
  PROVE  /\ Any(s) \in s
         /\ IsFiniteSet(s \ {Any(s)})
         /\ Cardinality(s) \in Nat /\ Cardinality(s) # 0
         /\ Cardinality(s \ {Any(s)}) = Cardinality(s) - 1
<1>1. Any(s) \in s
  BY DEF Any
<1>2. Cardinality(s) \in Nat /\ Cardinality(s) # 0
  BY FS_CardinalityType, FS_EmptySet
<1>3. QED
  BY <1>1, <1>2, FS_RemoveElement

\* There is such an f on the subsets of a finite set.
LEMMA SumExists ==
  ASSUME NEW S, IsFiniteSet(S), NEW g
  PROVE  \E f : IsSum(f, g, SUBSET S)
<1> DEFINE D(n) == {t \in SUBSET S : Cardinality(t) <= n}
           bad == {n \in Nat : ~ \E f : IsSum(f, g, D(n))}
<1>0. \A t \in SUBSET S : IsFiniteSet(t) /\ Cardinality(t) \in Nat
                          /\ Cardinality(t) <= Cardinality(S)
  BY FS_Subset, FS_CardinalityType
<1>1. SUFFICES ASSUME bad # {} PROVE FALSE
  <2>1. Cardinality(S) \in Nat /\ D(Cardinality(S)) = SUBSET S
    BY <1>0, FS_CardinalityType
  <2>2. Cardinality(S) \notin bad
    BY <1>1
  <2>3. \E f : IsSum(f, g, D(Cardinality(S)))
    BY <2>1, <2>2
  <2>4. QED
    BY <2>1, <2>3
<1>2. PICK m \in bad : \A k \in bad : m <= k
  <2>1. bad \subseteq Nat
    OBVIOUS
  <2> HIDE DEF bad
  <2>2. QED
    BY <1>1, <2>1, LeastNat
<1>3. m \in Nat /\ ~ \E f : IsSum(f, g, D(m))
  BY <1>2
<1>4. m # 0
  <2>1. SUFFICES ASSUME m = 0 PROVE FALSE
    OBVIOUS
  <2>2. \A t \in D(0) : t = {}
    <3>1. SUFFICES ASSUME NEW t \in D(0) PROVE t = {}
      OBVIOUS
    <3>2. t \in SUBSET S /\ Cardinality(t) <= 0
      OBVIOUS
    <3>3. Cardinality(t) = 0
      BY <1>0, <3>2
    <3>4. QED
      BY <1>0, <3>2, <3>3, FS_EmptySet
  <2> HIDE DEF D
  <2>3. IsSum([s \in D(0) |-> 0], g, D(0))
    BY <2>2 DEF IsSum
  <2>4. QED
    BY <1>3, <2>1, <2>3
<1>5. m - 1 \in Nat /\ m - 1 \notin bad
  <2>1. m - 1 \in Nat /\ ~(m <= m - 1)
    BY <1>3, <1>4
  <2> HIDE DEF bad
  <2>2. QED
    BY <1>2, <2>1
<1>6. PICK h : IsSum(h, g, D(m - 1))
  BY <1>5
<1> DEFINE f == [s \in D(m) |-> IF s = {} THEN 0 ELSE g[Any(s)] + h[s \ {Any(s)}]]
<1>7. D(m - 1) \subseteq D(m)
  BY <1>0, <1>3
<1>8. ASSUME NEW s \in D(m), s # {}
      PROVE  s \ {Any(s)} \in D(m - 1)
  <2>1. s \in SUBSET S /\ Cardinality(s) <= m
    OBVIOUS
  <2>2. IsFiniteSet(s)
    BY <1>0, <2>1
  <2>3. Cardinality(s) \in Nat /\ Cardinality(s \ {Any(s)}) = Cardinality(s) - 1
    BY <1>8, <2>2, AnyRemoved
  <2>4. Cardinality(s \ {Any(s)}) <= m - 1
    BY <1>3, <2>1, <2>3
  <2>5. QED
    BY <2>1, <2>4
<1> HIDE DEF D
<1>9. \A t \in D(m - 1) : f[t] = h[t]
  <2>1. \A t \in D(m - 1) : h[t] = IF t = {} THEN 0 ELSE g[Any(t)] + h[t \ {Any(t)}]
    BY <1>6 DEF IsSum
  <2>2. QED
    BY <1>7, <2>1
<1>10. IsSum(f, g, D(m))
  <2>1. \A s \in D(m) : f[s] = IF s = {} THEN 0 ELSE g[Any(s)] + f[s \ {Any(s)}]
    BY <1>8, <1>9
  <2>2. f = [s \in D(m) |-> f[s]]
    OBVIOUS
  <2> HIDE DEF f
  <2>3. QED
    BY <2>1, <2>2 DEF IsSum
<1>11. QED
  BY <1>3, <1>10

\* Sums of the same values agree, whatever else the functions are defined on.
LEMMA SumAgree ==
  ASSUME NEW S, IsFiniteSet(S), NEW A, NEW B, SUBSET S \subseteq A, SUBSET S \subseteq B,
         NEW g, NEW h, \A i \in S : g[i] = h[i],
         NEW e, IsSum(e, g, A), NEW f, IsSum(f, h, B)
  PROVE  \A s \in SUBSET S : e[s] = f[s]
<1> DEFINE bad == {n \in Nat : \E s \in SUBSET S : Cardinality(s) = n /\ e[s] # f[s]}
<1>0. \A t \in SUBSET S : IsFiniteSet(t) /\ Cardinality(t) \in Nat
  BY FS_Subset, FS_CardinalityType
<1>1. SUFFICES ASSUME bad # {} PROVE FALSE
  BY <1>0, <1>1
<1>2. PICK m \in bad : \A k \in bad : m <= k
  <2>1. bad \subseteq Nat
    OBVIOUS
  <2> HIDE DEF bad
  <2>2. QED
    BY <1>1, <2>1, LeastNat
<1>3. PICK s \in SUBSET S : Cardinality(s) = m /\ e[s] # f[s]
  BY <1>2
<1> DEFINE a == Any(s)
           r == s \ {Any(s)}
<1>4. \A t \in SUBSET S :
        /\ e[t] = IF t = {} THEN 0 ELSE g[Any(t)] + e[t \ {Any(t)}]
        /\ f[t] = IF t = {} THEN 0 ELSE h[Any(t)] + f[t \ {Any(t)}]
  BY DEF IsSum
<1>5. s # {}
  BY <1>3, <1>4
<1>6. /\ a \in S /\ r \in SUBSET S
      /\ m \in Nat /\ Cardinality(r) = m - 1 /\ Cardinality(r) \in Nat
  BY <1>0, <1>3, <1>5, AnyRemoved
<1>7. e[r] = f[r]
  <2>1. Cardinality(r) \notin bad
    <3>1. ~(m <= Cardinality(r))
      BY <1>6
    <3> HIDE DEF bad
    <3>2. QED
      BY <1>2, <3>1
  <2>2. QED
    BY <1>6, <2>1
<1>8. QED
  BY <1>3, <1>4, <1>5, <1>6, <1>7

LEMMA SumType ==
  ASSUME NEW S, IsFiniteSet(S), NEW g, \A i \in S : g[i] \in Int,
         NEW f, IsSum(f, g, SUBSET S)
  PROVE  \A s \in SUBSET S : f[s] \in Int
<1> DEFINE bad == {n \in Nat : \E s \in SUBSET S : Cardinality(s) = n /\ f[s] \notin Int}
<1>0. \A t \in SUBSET S : IsFiniteSet(t) /\ Cardinality(t) \in Nat
  BY FS_Subset, FS_CardinalityType
<1>1. SUFFICES ASSUME bad # {} PROVE FALSE
  BY <1>0, <1>1
<1>2. PICK m \in bad : \A k \in bad : m <= k
  <2>1. bad \subseteq Nat
    OBVIOUS
  <2> HIDE DEF bad
  <2>2. QED
    BY <1>1, <2>1, LeastNat
<1>3. PICK s \in SUBSET S : Cardinality(s) = m /\ f[s] \notin Int
  BY <1>2
<1> DEFINE r == s \ {Any(s)}
<1>4. f[s] = IF s = {} THEN 0 ELSE g[Any(s)] + f[r]
  BY DEF IsSum
<1>5. s # {}
  BY <1>3, <1>4
<1>6. /\ Any(s) \in S /\ r \in SUBSET S
      /\ m \in Nat /\ Cardinality(r) = m - 1 /\ Cardinality(r) \in Nat
  BY <1>0, <1>3, <1>5, AnyRemoved
<1>7. f[r] \in Int
  <2>1. Cardinality(r) \notin bad
    <3>1. ~(m <= Cardinality(r))
      BY <1>6
    <3> HIDE DEF bad
    <3>2. QED
      BY <1>2, <3>1
  <2>2. QED
    BY <1>6, <2>1
<1>8. QED
  BY <1>3, <1>4, <1>5, <1>6, <1>7

\* The order does not matter: any element may be taken out first.
LEMMA SumRemove ==
  ASSUME NEW S, IsFiniteSet(S), NEW g, \A i \in S : g[i] \in Int,
         NEW f, IsSum(f, g, SUBSET S)
  PROVE  \A s \in SUBSET S : \A i \in s : f[s] = g[i] + f[s \ {i}]
<1> DEFINE bad == {n \in Nat : \E s \in SUBSET S : \E i \in s :
                                 Cardinality(s) = n /\ f[s] # g[i] + f[s \ {i}]}
<1>0. \A t \in SUBSET S : IsFiniteSet(t) /\ Cardinality(t) \in Nat /\ f[t] \in Int
  BY FS_Subset, FS_CardinalityType, SumType
<1>1. SUFFICES ASSUME bad # {} PROVE FALSE
  BY <1>0, <1>1
<1>2. PICK m \in bad : \A k \in bad : m <= k
  <2>1. bad \subseteq Nat
    OBVIOUS
  <2> HIDE DEF bad
  <2>2. QED
    BY <1>1, <2>1, LeastNat
<1>3. PICK s \in SUBSET S : \E i \in s : Cardinality(s) = m /\ f[s] # g[i] + f[s \ {i}]
  BY <1>2
<1>4. PICK i \in s : Cardinality(s) = m /\ f[s] # g[i] + f[s \ {i}]
  BY <1>3
<1> DEFINE a == Any(s)
<1>5. s # {} /\ a \in s
  BY <1>4 DEF Any
<1>6. f[s] = g[a] + f[s \ {a}]
  BY <1>5 DEF IsSum
<1>7. a # i
  BY <1>4, <1>6
<1>8. ASSUME NEW j \in s, NEW k \in s, j # k
      PROVE  f[s \ {j}] = g[k] + f[(s \ {j}) \ {k}]
  <2>1. s \ {j} \in SUBSET S /\ k \in s \ {j}
    BY <1>8
  <2>2. Cardinality(s \ {j}) = m - 1 /\ m \in Nat /\ Cardinality(s \ {j}) \in Nat
    BY <1>0, <1>4, <2>1, FS_RemoveElement
  <2>3. Cardinality(s \ {j}) \notin bad
    <3>1. ~(m <= Cardinality(s \ {j}))
      BY <2>2
    <3> HIDE DEF bad
    <3>2. QED
      BY <1>2, <3>1
  <2>4. QED
    BY <2>1, <2>2, <2>3
<1>9. /\ f[s \ {a}] = g[i] + f[(s \ {a}) \ {i}]
      /\ f[s \ {i}] = g[a] + f[(s \ {i}) \ {a}]
  BY <1>5, <1>7, <1>8
<1>10. (s \ {a}) \ {i} = (s \ {i}) \ {a}
  OBVIOUS
<1>11. g[a] \in Int /\ g[i] \in Int /\ f[(s \ {i}) \ {a}] \in Int
  <2>1. (s \ {i}) \ {a} \in SUBSET S /\ a \in S /\ i \in S
    BY <1>5
  <2>2. QED
    BY <1>0, <2>1
<1>12. f[s] = g[i] + f[s \ {i}]
  <2> DEFINE z == f[(s \ {i}) \ {a}]
  <2>1. z \in Int /\ g[a] \in Int /\ g[i] \in Int
    BY <1>11
  <2>2. /\ f[s] = g[a] + f[s \ {a}]
        /\ f[s \ {a}] = g[i] + z
        /\ f[s \ {i}] = g[a] + z
    BY <1>6, <1>9, <1>10
  <2> HIDE DEF a, z
  <2>3. f[s] = g[a] + (g[i] + z)
    BY <2>2
  <2>4. g[i] + f[s \ {i}] = g[i] + (g[a] + z)
    BY <2>2
  <2>5. QED
    BY <2>1, <2>3, <2>4
<1>13. QED
  BY <1>4, <1>12

\* SumOver folds up such a sum.
LEMMA LinesAreSum ==
  ASSUME NEW S, IsFiniteSet(S), NEW c
  PROVE  \E f : /\ IsSum(f, [i \in S |-> c[i].value], SUBSET S)
                /\ SumOfLines(c, S) = f[S]
<1> DEFINE g == [i \in S |-> c[i].value]
           Eqn(f) == f = [s \in SUBSET S |->
                            IF s = {} THEN 0
                            ELSE c[Any(s)].value + f[s \ {Any(s)}]]
           F == CHOOSE f : Eqn(f)
<1>1. \A f : IsSum(f, g, SUBSET S) <=> Eqn(f)
  <2>1. SUFFICES ASSUME NEW f
                 PROVE  \A s \in SUBSET S :
                          (IF s = {} THEN 0 ELSE g[Any(s)] + f[s \ {Any(s)}]) =
                          (IF s = {} THEN 0 ELSE c[Any(s)].value + f[s \ {Any(s)}])
    <3> HIDE DEF g
    <3>1. QED
      BY DEF IsSum
  <2>2. SUFFICES ASSUME NEW s \in SUBSET S, s # {}
                 PROVE  g[Any(s)] = c[Any(s)].value
    OBVIOUS
  <2>3. Any(s) \in S
    BY <2>2 DEF Any
  <2>4. QED
    BY <2>3
<1>2. \E f : IsSum(f, g, SUBSET S)
  <2> HIDE DEF g
  <2>1. QED
    BY SumExists
<1>3. Eqn(F)
  <2>1. \E f : Eqn(f)
    BY <1>1, <1>2
  <2>2. QED
    BY <2>1
<1>4. SumOfLines(c, S) = F[S]
  BY DEF SumOfLines, SumOver, MapThenFoldSet, Any
<1> HIDE DEF F, g, Eqn
<1>5. IsSum(F, g, SUBSET S)
  BY <1>1, <1>3
<1>6. QED
  BY <1>4, <1>5 DEF g

LEMMA NoLinesSum ==
  ASSUME NEW c
  PROVE  SumOfLines(c, {}) = 0
<1>1. PICK f : /\ IsSum(f, [i \in {} |-> c[i].value], SUBSET {})
               /\ SumOfLines(c, {}) = f[{}]
  BY LinesAreSum, FS_EmptySet
<1>2. f[{}] = 0
  BY <1>1 DEF IsSum
<1>3. QED
  BY <1>1, <1>2

LEMMA LinesSumType ==
  ASSUME NEW S, IsFiniteSet(S), NEW c, \A i \in S : c[i].value \in Int
  PROVE  SumOfLines(c, S) \in Int
<1> DEFINE g == [i \in S |-> c[i].value]
<1>1. PICK f : IsSum(f, g, SUBSET S) /\ SumOfLines(c, S) = f[S]
  BY LinesAreSum
<1>2. \A i \in S : g[i] \in Int
  OBVIOUS
<1> HIDE DEF g
<1>3. f[S] \in Int
  BY <1>1, <1>2, SumType
<1>4. QED
  BY <1>1, <1>3

\* The sum depends on nothing but the values of the lines.
LEMMA LinesSumSame ==
  ASSUME NEW S, IsFiniteSet(S), NEW c, NEW d, \A i \in S : c[i].value = d[i].value
  PROVE  SumOfLines(c, S) = SumOfLines(d, S)
<1> DEFINE g == [i \in S |-> c[i].value]
           h == [i \in S |-> d[i].value]
<1>1. PICK e : IsSum(e, g, SUBSET S) /\ SumOfLines(c, S) = e[S]
  BY LinesAreSum
<1>2. PICK f : IsSum(f, h, SUBSET S) /\ SumOfLines(d, S) = f[S]
  BY LinesAreSum
<1>3. \A i \in S : g[i] = h[i]
  OBVIOUS
<1> HIDE DEF g, h
<1>4. \A s \in SUBSET S : e[s] = f[s]
  BY <1>1, <1>2, <1>3, SumAgree
<1>5. QED
  BY <1>1, <1>2, <1>4

\* A line more adds its value.
LEMMA LinesSumAdd ==
  ASSUME NEW S, IsFiniteSet(S), NEW n, n \notin S, NEW c,
         \A i \in S \cup {n} : c[i].value \in Int
  PROVE  SumOfLines(c, S \cup {n}) = c[n].value + SumOfLines(c, S)
<1> DEFINE T == S \cup {n}
           g == [i \in T |-> c[i].value]
           h == [i \in S |-> c[i].value]
<1>0. IsFiniteSet(T) /\ T \ {n} = S /\ n \in T /\ SUBSET S \subseteq SUBSET T
  BY FS_AddElement
<1>1. PICK e : IsSum(e, g, SUBSET T) /\ SumOfLines(c, T) = e[T]
  <2> HIDE DEF T
  <2>1. QED
    BY <1>0, LinesAreSum
<1>2. PICK f : IsSum(f, h, SUBSET S) /\ SumOfLines(c, S) = f[S]
  BY LinesAreSum
<1>3. \A i \in T : g[i] \in Int
  OBVIOUS
<1>4. \A i \in S : g[i] = h[i]
  OBVIOUS
<1>5. g[n] = c[n].value
  OBVIOUS
<1> HIDE DEF g, h, T
<1>6. e[T] = g[n] + e[T \ {n}]
  BY <1>0, <1>1, <1>3, SumRemove
<1>7. e[S] = f[S]
  BY <1>0, <1>1, <1>2, <1>4, SumAgree
<1>8. QED
  BY <1>0, <1>1, <1>2, <1>5, <1>6, <1>7 DEF T

\* Changing one line changes the sum by the difference.
LEMMA LinesSumChange ==
  ASSUME NEW S, IsFiniteSet(S), NEW n \in S, NEW c, NEW d, NEW v \in Int,
         \A i \in S : c[i].value \in Int /\ d[i].value \in Int,
         \A i \in S \ {n} : c[i].value = d[i].value,
         d[n].value = c[n].value + v
  PROVE  SumOfLines(d, S) = SumOfLines(c, S) + v
<1> DEFINE T == S \ {n}
<1>1. IsFiniteSet(T) /\ n \notin T /\ S = T \cup {n}
  BY FS_Subset
<1>2. \A i \in T \cup {n} : c[i].value \in Int /\ d[i].value \in Int
  BY <1>1
<1>3. \A i \in T : c[i].value = d[i].value
  OBVIOUS
<1> HIDE DEF T
<1>4. SumOfLines(c, T \cup {n}) = c[n].value + SumOfLines(c, T)
  BY <1>1, <1>2, LinesSumAdd
<1>5. SumOfLines(d, T \cup {n}) = d[n].value + SumOfLines(d, T)
  BY <1>1, <1>2, LinesSumAdd
<1>6. SumOfLines(c, T) = SumOfLines(d, T)
  BY <1>1, <1>3, LinesSumSame
<1>7. SumOfLines(c, T) \in Int
  BY <1>1, <1>2, LinesSumType
<1>8. QED
  BY <1>1, <1>2, <1>4, <1>5, <1>6, <1>7

-----------------------------------------------------------------------------
(* The lines of a series                                                   *)

LEMMA LinesOfType ==
  ASSUME NEW c \in Seq(OwnLine), NEW x
  PROVE  /\ Len(c) \in Nat /\ LinesOf(c, x) \subseteq 1..Len(c)
         /\ IsFiniteSet(LinesOf(c, x)) /\ Cardinality(LinesOf(c, x)) \in Nat
         /\ \A i \in 1..Len(c) :
              c[i].labels \in Series /\ c[i].value \in Int /\ c[i].time \in Nat
<1>1. Len(c) \in Nat
  BY LenProperties
<1>2. IsFiniteSet(1..Len(c))
  BY <1>1, FS_Interval
<1>3. LinesOf(c, x) \subseteq 1..Len(c)
  BY DEF LinesOf
<1>4. IsFiniteSet(LinesOf(c, x))
  BY <1>2, <1>3, FS_Subset
<1>5. \A i \in 1..Len(c) : c[i] \in OwnLine
  BY ElementOfSeq
<1>6. QED
  BY <1>1, <1>3, <1>4, <1>5, FS_CardinalityType DEF OwnLine

\* A line more, at the end.
LEMMA LineAdded ==
  ASSUME NEW c \in Seq(OwnLine), NEW e \in OwnLine
  PROVE  LET c2 == Append(c, e)
             n  == Len(c) + 1
         IN  /\ c2 \in Seq(OwnLine) /\ Len(c2) = n
             /\ \A i \in 1..Len(c) : c2[i] = c[i]
             /\ c2[n] = e
             /\ \A y : n \notin LinesOf(c, y)
             /\ LinesOf(c2, e.labels) = LinesOf(c, e.labels) \cup {n}
             /\ \A y : y # e.labels => LinesOf(c2, y) = LinesOf(c, y)
<1> DEFINE c2 == Append(c, e)
           n  == Len(c) + 1
<1>1. /\ c2 \in Seq(OwnLine) /\ Len(c2) = n /\ c2[n] = e
      /\ \A i \in 1..Len(c) : c2[i] = c[i]
  BY AppendProperties
<1>2. Len(c) \in Nat
  BY LenProperties
<1> HIDE DEF c2
<1>3. \A y : LinesOf(c, y) \subseteq 1..Len(c) /\ n \notin LinesOf(c, y)
  BY <1>2 DEF LinesOf
<1>4. 1..Len(c2) = (1..Len(c)) \cup {n}
  BY <1>1, <1>2
<1>5. LinesOf(c2, e.labels) = LinesOf(c, e.labels) \cup {n}
  BY <1>1, <1>2, <1>4 DEF LinesOf
<1>6. \A y : y # e.labels => LinesOf(c2, y) = LinesOf(c, y)
  BY <1>1, <1>2, <1>4 DEF LinesOf
<1>7. QED
  BY <1>1, <1>3, <1>5, <1>6 DEF c2

\* What an increment d of series x at time t does to the sums, and to the counts and
\* latest times.
Raised(sum, sum2, x, d) ==
  \A y \in Series : sum2[y] = IF y = x THEN sum[y] + d ELSE sum[y]
Counted(count, count2, last, last2, x, t) ==
  \A y \in Series :
    /\ count2[y] = IF y = x THEN count[y] + 1 ELSE count[y]
    /\ last2[y] = IF y = x /\ t > last[y] THEN t ELSE last[y]

LEMMA LineAddedSums ==
  ASSUME NEW c \in Seq(OwnLine), NEW e \in OwnLine, NEW sum \in [Series -> Int],
         SumsKept(c, sum), NEW sum2,
         Raised(sum, sum2, e.labels, e.value)
  PROVE  SumsKept(Append(c, e), sum2)
<1> DEFINE c2 == Append(c, e)
           n  == Len(c) + 1
<1>1. /\ c2 \in Seq(OwnLine) /\ Len(c2) = n
      /\ \A i \in 1..Len(c) : c2[i] = c[i]
      /\ c2[n] = e
      /\ \A y : n \notin LinesOf(c, y)
      /\ LinesOf(c2, e.labels) = LinesOf(c, e.labels) \cup {n}
      /\ \A y : y # e.labels => LinesOf(c2, y) = LinesOf(c, y)
  BY LineAdded
<1>2. e.labels \in Series /\ e.value \in Int
  BY DEF OwnLine
<1> HIDE DEF c2, n
<1>3. SUFFICES ASSUME NEW x \in Series
               PROVE  SumOfLines(c2, LinesOf(c2, x)) = sum2[x]
  BY DEF SumsKept, c2
<1> DEFINE S == LinesOf(c, x)
<1>4. /\ IsFiniteSet(S) /\ S \subseteq 1..Len(c)
      /\ \A i \in S : c[i].value \in Int /\ c2[i].value = c[i].value
  BY <1>1, LinesOfType
<1>5. SumOfLines(c, S) = sum[x]
  BY DEF SumsKept
<1>6. SumOfLines(c2, S) = SumOfLines(c, S)
  BY <1>4, LinesSumSame
<1>7. CASE x = e.labels
  <2>1. LinesOf(c2, x) = S \cup {n} /\ n \notin S
    BY <1>1, <1>7
  <2>2. \A i \in S \cup {n} : c2[i].value \in Int
    BY <1>1, <1>2, <1>4
  <2> HIDE DEF S
  <2>3. SumOfLines(c2, S \cup {n}) = c2[n].value + SumOfLines(c2, S)
    BY <1>4, <2>1, <2>2, LinesSumAdd
  <2>4. sum2[x] = sum[x] + e.value /\ sum[x] \in Int
    BY <1>7 DEF Raised
  <2>5. QED
    BY <1>1, <1>2, <1>5, <1>6, <2>1, <2>3, <2>4
<1>8. CASE x # e.labels
  BY <1>1, <1>2, <1>5, <1>6, <1>8 DEF Raised
<1>9. QED
  BY <1>7, <1>8

LEMMA LineAddedTimes ==
  ASSUME NEW c \in Seq(OwnLine), NEW e \in OwnLine,
         NEW count \in [Series -> Nat], NEW last \in [Series -> Nat],
         TimesKept(c, count, last), NEW count2, NEW last2,
         Counted(count, count2, last, last2, e.labels, e.time)
  PROVE  TimesKept(Append(c, e), count2, last2)
<1> DEFINE c2 == Append(c, e)
           n  == Len(c) + 1
<1>1. /\ c2 \in Seq(OwnLine) /\ Len(c2) = n
      /\ \A i \in 1..Len(c) : c2[i] = c[i]
      /\ c2[n] = e
      /\ LinesOf(c2, e.labels) = LinesOf(c, e.labels) \cup {n}
      /\ \A y : y # e.labels => LinesOf(c2, y) = LinesOf(c, y)
  BY LineAdded
<1>2. e.labels \in Series /\ e.time \in Nat
  BY DEF OwnLine
<1> HIDE DEF c2, n
<1>3. SUFFICES ASSUME NEW x \in Series
               PROVE  /\ \A i \in LinesOf(c2, x) : c2[i].time <= last2[x]
                      /\ IF count2[x] = 0 THEN last2[x] = 0
                         ELSE \E i \in LinesOf(c2, x) : c2[i].time = last2[x]
  BY DEF TimesKept, c2
<1>4. /\ \A i \in LinesOf(c, x) : c[i].time <= last[x]
      /\ IF count[x] = 0 THEN last[x] = 0
         ELSE \E i \in LinesOf(c, x) : c[i].time = last[x]
  BY DEF TimesKept
<1>5. \A i \in LinesOf(c, x) : c2[i] = c[i] /\ c[i].time \in Nat
  BY <1>1, LinesOfType
<1>6. CASE x = e.labels
  <2>1. /\ count2[x] = count[x] + 1 /\ count[x] \in Nat /\ last[x] \in Nat
        /\ last2[x] = IF e.time > last[x] THEN e.time ELSE last[x]
    BY <1>6 DEF Counted
  <2>2. LinesOf(c2, x) = LinesOf(c, x) \cup {n} /\ c2[n].time = e.time
    BY <1>1, <1>6
  <2>3. count2[x] # 0
    BY <2>1
  <2>4. \A i \in LinesOf(c2, x) : c2[i].time <= last2[x]
    BY <1>2, <1>4, <1>5, <2>1, <2>2
  <2>5. CASE e.time > last[x]
    BY <2>1, <2>2, <2>3, <2>4, <2>5
  <2>6. CASE ~(e.time > last[x]) /\ count[x] = 0
    BY <1>2, <1>4, <2>1, <2>2, <2>3, <2>4, <2>6
  <2>7. CASE ~(e.time > last[x]) /\ count[x] # 0
    BY <1>4, <1>5, <2>1, <2>2, <2>3, <2>4, <2>7
  <2>8. QED
    BY <2>5, <2>6, <2>7
<1>7. CASE x # e.labels
  BY <1>1, <1>2, <1>4, <1>5, <1>7 DEF Counted
<1>8. QED
  BY <1>6, <1>7

\* An event added to line i.
Updated(c, c2, i, d, t) ==
  /\ c2 \in Seq(OwnLine) /\ Len(c2) = Len(c)
  /\ \A k \in 1..Len(c) : k # i => c2[k] = c[k]
  /\ c2[i].value = c[i].value + d /\ c2[i].time = Later(c[i].time, t)
  /\ \A y : LinesOf(c2, y) = LinesOf(c, y)

LEMMA LineFields ==
  ASSUME NEW e \in OwnLine, NEW d \in Int, NEW t \in Nat
  PROVE  /\ [e EXCEPT !.value = @ + d] \in OwnLine
         /\ [e EXCEPT !.time = Later(@, t)] \in OwnLine
<1>1. Later(e.time, t) \in Nat
  BY DEF Later, OwnLine
<1>2. QED
  BY <1>1 DEF OwnLine

LEMMA LineUpdated ==
  ASSUME NEW c \in Seq(OwnLine), NEW i \in 1..Len(c), NEW d \in Int, NEW t \in Nat
  PROVE  Updated(c, [c EXCEPT ![i].value = @ + d, ![i].time = Later(@, t)], i, d, t)
<1> DEFINE c1 == [c EXCEPT ![i].value = @ + d]
           c2 == [c EXCEPT ![i].value = @ + d, ![i].time = Later(@, t)]
<1>1. Len(c) \in Nat /\ c \in [1..Len(c) -> OwnLine]
  BY LenProperties
<1>2. c[i] \in OwnLine
  BY <1>1
<1>3. c2 = [c1 EXCEPT ![i].time = Later(@, t)]
  OBVIOUS
<1>4. c1 = [c EXCEPT ![i] = [c[i] EXCEPT !.value = @ + d]]
  BY <1>1
<1>5. [c[i] EXCEPT !.value = @ + d] \in OwnLine
  BY <1>2, LineFields
<1>6. /\ c1 \in [1..Len(c) -> OwnLine]
      /\ \A k \in 1..Len(c) : k # i => c1[k] = c[k]
      /\ c1[i] = [c[i] EXCEPT !.value = @ + d]
  BY <1>1, <1>4, <1>5
<1>7. c1[i].value = c[i].value + d /\ c1[i].time = c[i].time /\ c1[i].labels = c[i].labels
  BY <1>2, <1>6 DEF OwnLine
<1> HIDE DEF c1, c2
<1>8. c2 = [c1 EXCEPT ![i] = [c1[i] EXCEPT !.time = Later(@, t)]]
  BY <1>3, <1>6
<1>9. c1[i] \in OwnLine
  BY <1>6
<1>11. [c1[i] EXCEPT !.time = Later(@, t)] \in OwnLine
  BY <1>9, LineFields
<1>12. /\ c2 \in [1..Len(c) -> OwnLine]
       /\ \A k \in 1..Len(c) : k # i => c2[k] = c1[k]
       /\ c2[i] = [c1[i] EXCEPT !.time = Later(@, t)]
  BY <1>6, <1>8, <1>11
<1>13. /\ c2[i].value = c1[i].value /\ c2[i].time = Later(c1[i].time, t)
       /\ c2[i].labels = c1[i].labels
  BY <1>9, <1>12 DEF OwnLine
<1>14. c2 \in Seq(OwnLine) /\ Len(c2) = Len(c)
  <2>1. c2 \in Seq(OwnLine)
    BY <1>1, <1>12, SeqDef
  <2>2. QED
    BY <1>1, <1>12, <2>1, LenProperties
<1>15. \A k \in 1..Len(c) : c2[k].labels = c[k].labels
  BY <1>6, <1>7, <1>12, <1>13
<1>16. \A y : LinesOf(c2, y) = LinesOf(c, y)
  BY <1>14, <1>15 DEF LinesOf
<1>17. QED
  BY <1>6, <1>7, <1>12, <1>13, <1>14, <1>16 DEF Updated, c2

LEMMA LineUpdatedSums ==
  ASSUME NEW c \in Seq(OwnLine), NEW i \in 1..Len(c), NEW d \in Int, NEW t \in Nat,
         NEW c2, Updated(c, c2, i, d, t),
         NEW sum \in [Series -> Int], SumsKept(c, sum), NEW sum2,
         Raised(sum, sum2, c[i].labels, d)
  PROVE  SumsKept(c2, sum2)
<1>1. /\ c2 \in Seq(OwnLine) /\ Len(c2) = Len(c)
      /\ \A k \in 1..Len(c) : k # i => c2[k] = c[k]
      /\ c2[i].value = c[i].value + d
      /\ \A y : LinesOf(c2, y) = LinesOf(c, y)
  BY DEF Updated
<1>2. SUFFICES ASSUME NEW x \in Series
               PROVE  SumOfLines(c2, LinesOf(c, x)) = sum2[x]
  BY <1>1 DEF SumsKept
<1> DEFINE S == LinesOf(c, x)
<1>3. /\ IsFiniteSet(S) /\ S \subseteq 1..Len(c)
      /\ \A k \in 1..Len(c) : c[k].value \in Int /\ c[k].labels \in Series
  BY LinesOfType
<1>4. \A k \in S : c[k].value \in Int /\ c2[k].value \in Int
  <2>1. \A k \in 1..Len(c2) : c2[k].value \in Int
    BY <1>1, LinesOfType
  <2>2. QED
    BY <1>1, <1>3, <2>1
<1>5. SumOfLines(c, S) = sum[x] /\ sum[x] \in Int
  BY DEF SumsKept
<1>6. CASE x = c[i].labels
  <2>1. i \in S
    BY <1>6 DEF LinesOf
  <2>2. \A k \in S \ {i} : c[k].value = c2[k].value
    BY <1>1, <1>3
  <2> HIDE DEF S
  <2>3. SumOfLines(c2, S) = SumOfLines(c, S) + d
    BY <1>1, <1>3, <1>4, <2>1, <2>2, LinesSumChange
  <2>4. sum2[x] = sum[x] + d
    BY <1>6 DEF Raised
  <2>5. QED
    BY <1>1, <1>3, <1>5, <2>3, <2>4 DEF S
<1>7. CASE x # c[i].labels
  <2>1. \A k \in S : c2[k].value = c[k].value
    BY <1>1, <1>3, <1>7 DEF LinesOf
  <2> HIDE DEF S
  <2>2. SumOfLines(c2, S) = SumOfLines(c, S)
    BY <1>3, <2>1, LinesSumSame
  <2>3. QED
    BY <1>3, <1>5, <1>7, <2>2 DEF S, Raised
<1>8. QED
  BY <1>6, <1>7

LEMMA LineUpdatedTimes ==
  ASSUME NEW c \in Seq(OwnLine), NEW i \in 1..Len(c), NEW d \in Int, NEW t \in Nat,
         NEW c2, Updated(c, c2, i, d, t),
         NEW count \in [Series -> Nat], NEW last \in [Series -> Nat],
         TimesKept(c, count, last), NEW count2, NEW last2,
         Counted(count, count2, last, last2, c[i].labels, t)
  PROVE  TimesKept(c2, count2, last2)
<1>1. /\ c2 \in Seq(OwnLine) /\ Len(c2) = Len(c)
      /\ \A k \in 1..Len(c) : k # i => c2[k] = c[k]
      /\ c2[i].time = Later(c[i].time, t)
      /\ \A y : LinesOf(c2, y) = LinesOf(c, y)
  BY DEF Updated
<1>2. SUFFICES ASSUME NEW x \in Series
               PROVE  /\ \A k \in LinesOf(c, x) : c2[k].time <= last2[x]
                      /\ IF count2[x] = 0 THEN last2[x] = 0
                         ELSE \E k \in LinesOf(c, x) : c2[k].time = last2[x]
  BY <1>1 DEF TimesKept
<1>3. /\ \A k \in LinesOf(c, x) : c[k].time <= last[x]
      /\ IF count[x] = 0 THEN last[x] = 0
         ELSE \E k \in LinesOf(c, x) : c[k].time = last[x]
  BY DEF TimesKept
<1>4. /\ LinesOf(c, x) \subseteq 1..Len(c)
      /\ \A k \in 1..Len(c) : c[k].time \in Nat /\ c[k].labels \in Series
  BY LinesOfType
<1>5. CASE x = c[i].labels
  <2>1. i \in LinesOf(c, x)
    BY <1>5 DEF LinesOf
  <2>2. /\ count2[x] = count[x] + 1 /\ count[x] \in Nat /\ last[x] \in Nat
        /\ last2[x] = IF t > last[x] THEN t ELSE last[x]
    BY <1>5 DEF Counted
  <2>3. c2[i].time = IF t > c[i].time THEN t ELSE c[i].time
    BY <1>1 DEF Later
  <2>4. \A k \in LinesOf(c, x) : c2[k].time <= last2[x]
    BY <1>1, <1>3, <1>4, <2>2, <2>3
  <2>5. CASE t > last[x]
    <3>1. c2[i].time = last2[x]
      BY <1>3, <1>4, <2>1, <2>2, <2>3, <2>5
    <3>2. QED
      BY <2>1, <2>2, <2>4, <3>1
  <2>6. CASE ~(t > last[x]) /\ count[x] = 0
    <3>1. c2[i].time = last2[x]
      BY <1>3, <1>4, <2>1, <2>2, <2>3, <2>6
    <3>2. QED
      BY <2>1, <2>2, <2>4, <3>1
  <2>7. CASE ~(t > last[x]) /\ count[x] # 0
    <3>1. PICK k \in LinesOf(c, x) : c[k].time = last[x]
      BY <1>3, <2>7
    <3>2. c2[k].time = last2[x]
      BY <1>1, <1>4, <2>2, <2>3, <2>7, <3>1
    <3>3. QED
      BY <2>2, <2>4, <3>2
  <2>8. QED
    BY <2>5, <2>6, <2>7
<1>6. CASE x # c[i].labels
  <2>1. \A k \in LinesOf(c, x) : c2[k] = c[k]
    BY <1>1, <1>4, <1>6 DEF LinesOf
  <2>2. count2[x] = count[x] /\ last2[x] = last[x]
    BY <1>4, <1>6 DEF Counted
  <2>3. QED
    BY <1>3, <2>1, <2>2
<1>7. QED
  BY <1>5, <1>6

LEMMA LineAddedBudget ==
  ASSUME NEW c \in Seq(OwnLine), NEW e \in OwnLine, NEW count \in [Series -> Nat],
         NEW a, NEW a2, BudgetKept(c, count, a), NEW count2,
         \A y \in Series : count2[y] = IF y = e.labels THEN count[y] + 1 ELSE count[y],
         \/ a2 = a /\ e.labels \notin a
         \/ a2 = a \cup {e.labels} /\ LinesOf(c, e.labels) = {}
  PROVE  BudgetKept(Append(c, e), count2, a2)
<1> DEFINE c2 == Append(c, e)
           n  == Len(c) + 1
<1>1. /\ \A y : n \notin LinesOf(c, y)
      /\ LinesOf(c2, e.labels) = LinesOf(c, e.labels) \cup {n}
      /\ \A y : y # e.labels => LinesOf(c2, y) = LinesOf(c, y)
  BY LineAdded
<1>2. e.labels \in Series
  BY DEF OwnLine
<1> HIDE DEF c2, n
<1>3. SUFFICES ASSUME NEW x \in Series
               PROVE  Cardinality(LinesOf(c2, x))
                        <= IF x \in a2 THEN 1 ELSE count2[x]
  BY DEF BudgetKept, c2
<1>4. /\ Cardinality(LinesOf(c, x)) <= IF x \in a THEN 1 ELSE count[x]
      /\ count[x] \in Nat
  BY DEF BudgetKept
<1>5. IsFiniteSet(LinesOf(c, x)) /\ Cardinality(LinesOf(c, x)) \in Nat
  BY LinesOfType
<1>6. CASE x = e.labels
  <2>1. Cardinality(LinesOf(c2, x)) = Cardinality(LinesOf(c, x)) + 1
    BY <1>1, <1>5, <1>6, FS_AddElement
  <2>2. count2[x] = count[x] + 1
    BY <1>6
  <2>3. LinesOf(c, x) = {} => Cardinality(LinesOf(c, x)) = 0
    BY FS_EmptySet
  <2>4. QED
    BY <1>4, <1>5, <1>6, <2>1, <2>2, <2>3
<1>7. CASE x # e.labels
  BY <1>1, <1>2, <1>4, <1>7
<1>8. QED
  BY <1>6, <1>7

\* What addCounter records.
LEMMA RecordedCounter ==
  ASSUME recorded \in Record, NEW o \in Objects, array[o] \in Series,
         event[o].value \in Int, event[o].ts \in Nat, addCounter(o)
  PROVE  /\ recorded' \in Record /\ recorded'.occurred = recorded.occurred
         /\ recorded'.samples = recorded.samples
         /\ Raised(recorded.sum, recorded'.sum, array[o], event[o].value)
         /\ Counted(recorded.count, recorded'.count, recorded.last, recorded'.last,
                    array[o], event[o].ts)
<1> DEFINE x == array[o]
           d == event[o].value
           t == event[o].ts
           s == [recorded.sum EXCEPT ![x] = @ + d]
           k == [recorded.count EXCEPT ![x] = @ + 1]
           l == [recorded.last EXCEPT ![x] = IF t > @ THEN t ELSE @]
<1>1. /\ recorded.sum \in [Series -> Int] /\ recorded.count \in [Series -> Nat]
      /\ recorded.last \in [Series -> Nat]
      /\ recorded.samples \in Seq(Series \X Int \X Nat)
      /\ recorded.occurred \in SUBSET (Series \X UniqueIds)
      /\ recorded = [sum |-> recorded.sum, count |-> recorded.count,
                     last |-> recorded.last, samples |-> recorded.samples,
                     occurred |-> recorded.occurred]
  BY DEF Record
<1>2. s \in [Series -> Int] /\ k \in [Series -> Nat] /\ l \in [Series -> Nat]
  BY <1>1
<1>3. recorded' = [recorded EXCEPT !.sum[x] = @ + d, !.count[x] = @ + 1,
                                   !.last[x] = IF t > @ THEN t ELSE @]
  BY DEF addCounter
<1>4. recorded' = [sum |-> s, count |-> k, last |-> l, samples |-> recorded.samples,
                   occurred |-> recorded.occurred]
  BY <1>1, <1>3
<1>5. Raised(recorded.sum, s, x, d) /\ Counted(recorded.count, k, recorded.last, l, x, t)
  BY <1>1 DEF Raised, Counted
<1> HIDE DEF s, k, l
<1>6. recorded' \in Record
  BY <1>1, <1>2, <1>4 DEF Record
<1>7. QED
  BY <1>4, <1>5, <1>6

-----------------------------------------------------------------------------
(* What the builder records                                                *)

\* A counter, found or not: its line takes it up, or it gets a line, and an entry if
\* there is room.
LEMMA AddCounterCounts ==
  ASSUME TableInv, CountInv, NEW o \in Objects, event[o] \in Recordings,
         array[o] \in Series, addCounter(o)
  PROVE  CountInv'
<1> DEFINE x == array[o]
           d == event[o].value
           t == event[o].ts
           found == Find(x, aggs[Hash[x]])
           e == [labels |-> x, value |-> d, time |-> t]
           i == entries[found].payloadIndex
<1>1. d \in Int /\ t \in Nat /\ x \in Series
  BY RecordingFields
<1>2. /\ found \in 0..Len(entries)
      /\ found # 0 => entries[found].labels = x
      /\ found = 0 => \A j \in 1..Len(entries) : entries[j].labels # x
  BY <1>1, FindCorrect DEF TableInv
<1>3. /\ counters \in Seq(OwnLine) /\ uniques \in Seq(OwnUnique) /\ recorded \in Record
      /\ values \in Seq(OwnLine) /\ SamplesKept(values, recorded.samples)
      /\ SumsKept(counters, recorded.sum)
      /\ TimesKept(counters, recorded.count, recorded.last)
      /\ BudgetKept(counters, recorded.count, Entered)
      /\ UniquesKept(uniques, recorded.occurred)
      /\ Linked /\ seen = recorded.occurred
  BY DEF CountInv, Faithful
<1>4. /\ recorded.sum \in [Series -> Int] /\ recorded.count \in [Series -> Nat]
      /\ recorded.last \in [Series -> Nat]
  BY <1>3 DEF Record
<1>5. /\ entries \in Seq(Entry(Len(entries), Len(counters)))
      /\ Len(entries) <= MaxSeriesPerBatch
  BY BucketsRead, BuilderTypes DEF TableInv
<1>6. Len(counters) \in Nat /\ Len(entries) \in Nat
  BY <1>3, <1>5, LenProperties
<1>7. \A j \in 1..Len(entries) : entries[j].payloadIndex \in 1..Len(counters)
  <2>1. \A j \in 1..Len(entries) : entries[j] \in Entry(Len(entries), Len(counters))
    BY <1>5, ElementOfSeq
  <2>2. QED
    BY <2>1 DEF Entry
<1>8. /\ recorded' \in Record /\ recorded'.occurred = recorded.occurred
      /\ recorded'.samples = recorded.samples
      /\ Raised(recorded.sum, recorded'.sum, x, d)
      /\ Counted(recorded.count, recorded'.count, recorded.last, recorded'.last, x, t)
  BY <1>1, <1>3, RecordedCounter
<1>9. UNCHANGED <<values, uniques, seen>>
  BY DEF addCounter
<1>10. \/ /\ found # 0
          /\ counters' = [counters EXCEPT ![i].value = @ + d, ![i].time = Later(@, t)]
          /\ UNCHANGED entries
       \/ /\ found = 0
          /\ counters' = Append(counters, e)
          /\ \/ AggregationFull /\ UNCHANGED entries
             \/ /\ ~AggregationFull
                /\ entries' = Append(entries, [labels |-> x, next |-> aggs[Hash[x]],
                                               payloadIndex |-> Len(counters) + 1])
  BY DEF addCounter, cloneLabels, NextInBucket
<1> HIDE DEF x, d, t, found, i
<1>11. \A y \in Series :
         recorded'.count[y] = IF y = x THEN recorded.count[y] + 1 ELSE recorded.count[y]
  BY <1>8 DEF Counted
<1>12. /\ uniques' \in Seq(OwnUnique) /\ UniquesKept(uniques', recorded'.occurred)
       /\ values' \in Seq(OwnLine) /\ SamplesKept(values', recorded'.samples)
       /\ seen' = recorded'.occurred
  BY <1>3, <1>8, <1>9
<1>13. SUFFICES /\ counters' \in Seq(OwnLine)
                /\ SumsKept(counters', recorded'.sum)
                /\ TimesKept(counters', recorded'.count, recorded'.last)
                /\ BudgetKept(counters', recorded'.count, Entered')
                /\ Linked'
  BY <1>8, <1>12 DEF CountInv, Faithful
<1>14. CASE found # 0
  <2>1. found \in 1..Len(entries) /\ UNCHANGED entries
    BY <1>2, <1>6, <1>10, <1>14
  <2>2. i \in 1..Len(counters) /\ counters[i].labels = x
    BY <1>2, <1>3, <1>7, <1>14, <2>1 DEF Linked, i
  <2>3. counters' = [counters EXCEPT ![i].value = @ + d, ![i].time = Later(@, t)]
    BY <1>10, <1>14
  <2>4. Updated(counters, counters', i, d, t)
    BY <1>1, <1>3, <2>2, <2>3, LineUpdated
  <2>5. counters' \in Seq(OwnLine) /\ \A y : LinesOf(counters', y) = LinesOf(counters, y)
    BY <2>4 DEF Updated
  <2>6. SumsKept(counters', recorded'.sum)
    BY <1>1, <1>3, <1>4, <1>8, <2>2, <2>4, LineUpdatedSums
  <2>7. TimesKept(counters', recorded'.count, recorded'.last)
    BY <1>1, <1>3, <1>4, <1>8, <2>2, <2>4, LineUpdatedTimes
  <2>8. Entered' = Entered
    BY <2>1 DEF Entered
  <2>9. BudgetKept(counters', recorded'.count, Entered')
    <3>1. \A y \in Series : /\ recorded.count[y] \in Nat
                            /\ recorded.count[y] <= recorded'.count[y]
                            /\ recorded'.count[y] \in Nat
      BY <1>1, <1>4, <1>11
    <3>2. \A y : Cardinality(LinesOf(counters, y)) \in Nat
      BY <1>3, LinesOfType
    <3>3. QED
      BY <1>3, <2>5, <2>8, <3>1, <3>2 DEF BudgetKept
  <2>10. Linked'
    <3>1. \A k \in 1..Len(counters) : counters'[k].labels = counters[k].labels
      <4>1. \A k \in 1..Len(counters) : k \in LinesOf(counters, counters[k].labels)
        BY DEF LinesOf
      <4>2. QED
        BY <2>5, <4>1 DEF LinesOf
    <3>2. Len(counters') = Len(counters)
      BY <2>4 DEF Updated
    <3>3. QED
      BY <1>3, <1>7, <2>1, <2>8, <3>1, <3>2 DEF Linked
  <2>11. QED
    BY <2>5, <2>6, <2>7, <2>9, <2>10
<1>15. CASE found = 0
  <2>1. e \in OwnLine /\ e.labels = x /\ e.value = d /\ e.time = t
    BY <1>1 DEF OwnLine
  <2>2. counters' = Append(counters, e)
    BY <1>10, <1>15
  <2> HIDE DEF e
  <2>3. SumsKept(counters', recorded'.sum)
    BY <1>3, <1>4, <1>8, <2>1, <2>2, LineAddedSums
  <2>4. TimesKept(counters', recorded'.count, recorded'.last)
    BY <1>3, <1>4, <1>8, <2>1, <2>2, LineAddedTimes
  <2>5. /\ counters' \in Seq(OwnLine) /\ Len(counters') = Len(counters) + 1
        /\ \A k \in 1..Len(counters) : counters'[k] = counters[k]
        /\ counters'[Len(counters) + 1] = e
    BY <1>3, <2>1, <2>2, LineAdded
  <2>6. x \notin Entered
    BY <1>2, <1>15 DEF Entered
  <2>7. CASE AggregationFull
    <3>1. entries' = entries /\ Entered' = Entered
      BY <1>10, <1>15, <2>7 DEF Entered
    <3>2. BudgetKept(counters', recorded'.count, Entered')
      BY <1>3, <1>4, <1>11, <2>1, <2>2, <2>6, <3>1, LineAddedBudget
    <3>3. ~(Len(entries') < MaxSeriesPerBatch)
      BY <1>6, <2>7, <3>1, BuilderAssumption DEF AggregationFull, BuilderAssumption
    <3>4. Linked'
      BY <1>3, <1>7, <2>5, <3>1, <3>3 DEF Linked
    <3>5. QED
      BY <2>3, <2>4, <2>5, <3>2, <3>4
  <2>8. CASE ~AggregationFull
    <3> DEFINE new == [labels |-> x, next |-> aggs[Hash[x]],
                       payloadIndex |-> Len(counters) + 1]
    <3>1. Len(entries) < MaxSeriesPerBatch
      BY <1>5, <1>6, <2>8, BuilderAssumption DEF AggregationFull, BuilderAssumption
    <3>2. entries' = Append(entries, new)
      BY <1>10, <1>15, <2>8
    <3>3. new.labels = x /\ new.payloadIndex = Len(counters) + 1
      OBVIOUS
    <3> HIDE DEF new
    <3>4. /\ Len(entries') = Len(entries) + 1
          /\ \A j \in 1..Len(entries) : entries'[j] = entries[j]
          /\ entries'[Len(entries) + 1] = new
      BY <1>5, <3>2, AppendProperties
    <3>5. 1..Len(entries') = 1..Len(entries) \cup {Len(entries) + 1}
      BY <1>6, <3>4
    <3>6. Entered' = Entered \cup {x}
      <4>1. Entered' = {entries'[j].labels : j \in 1..Len(entries')}
        BY DEF Entered
      <4>2. QED
        BY <3>3, <3>4, <3>5, <4>1 DEF Entered
    <3>7. LinesOf(counters, x) = {}
      BY <1>3, <2>6, <3>1 DEF Linked, LinesOf
    <3>8. BudgetKept(counters', recorded'.count, Entered')
      BY <1>3, <1>4, <1>11, <2>1, <2>2, <3>6, <3>7, LineAddedBudget
    <3>9. \A j \in 1..Len(entries') :
            counters'[entries'[j].payloadIndex].labels = entries'[j].labels
      BY <1>3, <1>7, <2>1, <2>5, <3>3, <3>4, <3>5 DEF Linked
    <3>10. \A k \in 1..Len(counters') : counters'[k].labels \in Entered'
      <4>1. 1..Len(counters') = 1..Len(counters) \cup {Len(counters) + 1}
        BY <1>6, <2>5
      <4>2. \A k \in 1..Len(counters) : counters[k].labels \in Entered
        BY <1>3, <3>1 DEF Linked
      <4>3. QED
        BY <2>1, <2>5, <3>6, <4>1, <4>2
    <3>11. QED
      BY <2>3, <2>4, <2>5, <3>8, <3>9, <3>10 DEF Linked
  <2>9. QED
    BY <2>7, <2>8
<1>16. QED
  BY <1>14, <1>15

LEMMA UniqueAdded ==
  ASSUME NEW w \in Seq(OwnUnique), NEW e \in OwnUnique, NEW occurred,
         UniquesKept(w, occurred), <<e.labels, e.id>> \notin occurred
  PROVE  /\ Append(w, e) \in Seq(OwnUnique)
         /\ UniquesKept(Append(w, e), occurred \cup {<<e.labels, e.id>>})
<1> DEFINE w2 == Append(w, e)
           key(v, i) == <<v[i].labels, v[i].id>>
<1>1. /\ w2 \in Seq(OwnUnique) /\ Len(w2) = Len(w) + 1 /\ w2[Len(w) + 1] = e
      /\ \A i \in 1..Len(w) : w2[i] = w[i]
  BY AppendProperties
<1>2. Len(w) \in Nat
  BY LenProperties
<1> HIDE DEF w2
<1>3. 1..Len(w2) = 1..Len(w) \cup {Len(w) + 1}
  BY <1>1, <1>2
<1>4. {key(w2, i) : i \in 1..Len(w2)} =
        {key(w, i) : i \in 1..Len(w)} \cup {<<e.labels, e.id>>}
  BY <1>1, <1>2, <1>3
<1>5. /\ {key(w, i) : i \in 1..Len(w)} = occurred
      /\ Len(w) = Cardinality(occurred) /\ IsFiniteSet(occurred)
  BY DEF UniquesKept
<1>6. /\ IsFiniteSet(occurred \cup {<<e.labels, e.id>>})
      /\ Cardinality(occurred \cup {<<e.labels, e.id>>}) = Cardinality(occurred) + 1
  BY <1>5, FS_AddElement
<1>7. UniquesKept(w2, occurred \cup {<<e.labels, e.id>>})
  BY <1>1, <1>4, <1>5, <1>6 DEF UniquesKept
<1>8. QED
  BY <1>1, <1>7 DEF w2

\* A unique occurrence: kept the first time, known after that.
LEMMA AddUniqueCounts ==
  ASSUME CountInv, NEW o \in Objects, event[o] \in Recordings, array[o] \in Series,
         event[o].typ = "unique", addUnique(o)
  PROVE  CountInv'
<1> DEFINE x == array[o]
           u == event[o].uniqueID
           e == [labels |-> x, id |-> u]
           occurred2 == recorded.occurred \cup {<<x, u>>}
<1>1. u \in UniqueIds /\ x \in Series
  BY RecordingFields
<1>2. /\ counters \in Seq(OwnLine) /\ uniques \in Seq(OwnUnique) /\ recorded \in Record
      /\ values \in Seq(OwnLine) /\ SamplesKept(values, recorded.samples)
      /\ SumsKept(counters, recorded.sum)
      /\ TimesKept(counters, recorded.count, recorded.last)
      /\ BudgetKept(counters, recorded.count, Entered)
      /\ UniquesKept(uniques, recorded.occurred)
      /\ Linked /\ seen = recorded.occurred
  BY DEF CountInv, Faithful
<1>3. /\ recorded' = [recorded EXCEPT !.occurred = @ \cup {<<x, u>>}]
      /\ UNCHANGED <<counters, values, entries>>
      /\ IF <<x, u>> \in seen THEN UNCHANGED <<seen, uniques>>
         ELSE seen' = seen \cup {<<x, u>>} /\ uniques' = Append(uniques, e)
  BY DEF addUnique, UniqueKey, cloneLabels
<1>4. /\ recorded' \in Record /\ recorded'.sum = recorded.sum
      /\ recorded'.count = recorded.count /\ recorded'.last = recorded.last
      /\ recorded'.samples = recorded.samples /\ recorded'.occurred = occurred2
  <2>1. /\ recorded.sum \in [Series -> Int] /\ recorded.count \in [Series -> Nat]
        /\ recorded.last \in [Series -> Nat]
        /\ recorded.samples \in Seq(Series \X Int \X Nat)
        /\ recorded.occurred \in SUBSET (Series \X UniqueIds)
        /\ recorded = [sum |-> recorded.sum, count |-> recorded.count,
                       last |-> recorded.last, samples |-> recorded.samples,
                       occurred |-> recorded.occurred]
    BY <1>2 DEF Record
  <2>2. occurred2 \in SUBSET (Series \X UniqueIds)
    BY <1>1, <2>1
  <2>3. recorded' = [sum |-> recorded.sum, count |-> recorded.count,
                     last |-> recorded.last, samples |-> recorded.samples,
                     occurred |-> occurred2]
    BY <1>3, <2>1
  <2> HIDE DEF occurred2
  <2>4. QED
    BY <2>1, <2>2, <2>3 DEF Record
<1>5. Entered' = Entered /\ Linked'
  BY <1>2, <1>3 DEF Entered, Linked
<1>6. uniques' \in Seq(OwnUnique) /\ UniquesKept(uniques', occurred2) /\ seen' = occurred2
  <2>1. CASE <<x, u>> \in seen
    <3>1. occurred2 = recorded.occurred
      BY <1>2, <2>1
    <3>2. QED
      BY <1>2, <1>3, <2>1, <3>1
  <2>2. CASE <<x, u>> \notin seen
    <3>1. e \in OwnUnique /\ e.labels = x /\ e.id = u
      BY <1>1 DEF OwnUnique
    <3>2. uniques' = Append(uniques, e) /\ seen' = seen \cup {<<x, u>>}
      BY <1>3, <2>2
    <3> HIDE DEF e
    <3>3. QED
      BY <1>2, <2>2, <3>1, <3>2, UniqueAdded
  <2>3. QED
    BY <2>1, <2>2
<1> HIDE DEF occurred2
<1>7. QED
  BY <1>2, <1>3, <1>4, <1>5, <1>6 DEF CountInv, Faithful

\* A sample goes behind the others, with a copy of the labels of its event.
LEMMA AddValueCounts ==
  ASSUME CountInv, NEW o \in Objects, event[o] \in Recordings, array[o] \in Series,
         addValue(o)
  PROVE  CountInv'
<1> DEFINE x == array[o]
           d == event[o].value
           t == event[o].ts
           e == [labels |-> x, value |-> d, time |-> t]
           read(v) == [i \in 1..Len(v) |-> <<v[i].labels, v[i].value, v[i].time>>]
           n == Len(values)
<1>1. d \in Int /\ t \in Nat /\ x \in Series
  BY RecordingFields
<1>2. /\ values \in Seq(OwnLine) /\ recorded \in Record
      /\ read(values) = recorded.samples
  BY DEF CountInv, Faithful, SamplesKept
<1>3. /\ values' = Append(values, e)
      /\ recorded' = [recorded EXCEPT !.samples = Append(@, <<x, d, t>>)]
      /\ UNCHANGED <<counters, uniques, entries, seen>>
  BY DEF addValue, cloneLabels
<1>4. e \in OwnLine /\ e.labels = x /\ e.value = d /\ e.time = t
  BY <1>1 DEF OwnLine
<1>5. <<x, d, t>> \in Series \X Int \X Nat
  BY <1>1
<1> HIDE DEF e, x, d, t
<1>6. /\ n \in Nat /\ values' \in Seq(OwnLine) /\ Len(values') = n + 1
      /\ \A i \in 1..n : values'[i] = values[i]
      /\ values'[n + 1] = e
  BY <1>2, <1>3, <1>4, AppendProperties, LenProperties
<1>7. /\ recorded.samples \in Seq(Series \X Int \X Nat)
      /\ Len(recorded.samples) = n /\ DOMAIN recorded.samples = 1..n
      /\ \A i \in 1..n :
           recorded.samples[i] = <<values[i].labels, values[i].value, values[i].time>>
  <2>1. recorded.samples \in Seq(Series \X Int \X Nat)
    BY <1>2 DEF Record
  <2>2. recorded.samples = [i \in 1..n |->
                              <<values[i].labels, values[i].value, values[i].time>>]
    BY <1>2
  <2>3. DOMAIN recorded.samples = 1..n
    BY <2>2
  <2>4. Len(recorded.samples) = n
    BY <1>6, <2>1, <2>3, LenProperties
  <2>5. QED
    BY <2>1, <2>2, <2>3, <2>4
<1>8. /\ recorded'.samples = Append(recorded.samples, <<x, d, t>>)
      /\ recorded'.sum = recorded.sum /\ recorded'.count = recorded.count
      /\ recorded'.last = recorded.last /\ recorded'.occurred = recorded.occurred
      /\ recorded' \in Record
  <2>1. Append(recorded.samples, <<x, d, t>>) \in Seq(Series \X Int \X Nat)
    BY <1>5, <1>7, AppendProperties
  <2>2. ASSUME NEW r \in Record, NEW s \in Seq(Series \X Int \X Nat)
        PROVE  LET q == [r EXCEPT !.samples = s]
               IN  /\ q \in Record /\ q.samples = s /\ q.sum = r.sum /\ q.count = r.count
                   /\ q.last = r.last /\ q.occurred = r.occurred
    BY DEF Record
  <2>3. recorded' = [recorded EXCEPT !.samples = Append(recorded.samples, <<x, d, t>>)]
    BY <1>2, <1>3
  <2>4. QED
    BY <1>2, <2>1, <2>2, <2>3
<1>9. SamplesKept(values', recorded'.samples)
  <2> DEFINE s == recorded'.samples
  <2>1. /\ s \in Seq(Series \X Int \X Nat) /\ Len(s) = n + 1
        /\ \A i \in 1..n : s[i] = recorded.samples[i]
        /\ s[n + 1] = <<x, d, t>>
    BY <1>5, <1>7, <1>8, AppendProperties
  <2> HIDE DEF s, n
  <2>2. s = [i \in 1..(n + 1) |-> s[i]]
    BY <2>1, LenProperties
  <2>3. \A i \in 1..(n + 1) :
          s[i] = <<values'[i].labels, values'[i].value, values'[i].time>>
    <3>1. \A i \in 1..(n + 1) : i \in 1..n \/ i = n + 1
      BY <1>6
    <3>2. QED
      BY <1>4, <1>6, <1>7, <2>1, <3>1
  <2>4. QED
    BY <1>6, <2>2, <2>3 DEF SamplesKept, s
<1>10. Entered' = Entered /\ Linked'
  BY <1>3 DEF CountInv, Entered, Linked
<1> HIDE DEF n
<1>11. QED
  BY <1>3, <1>6, <1>8, <1>9, <1>10 DEF CountInv, Faithful

LEMMA AddCounts ==
  ASSUME TableInv, CountInv, NEW o \in Objects, event[o] \in Recordings,
         array[o] \in Series, add(o)
  PROVE  CountInv'
<1>1. CASE event[o].typ = "counter" /\ addCounter(o)
  BY <1>1, AddCounterCounts
<1>2. CASE event[o].typ = "unique" /\ addUnique(o)
  BY <1>2, AddUniqueCounts
<1>3. CASE event[o].typ = "value" /\ addValue(o)
  BY <1>3, AddValueCounts
<1>4. QED
  BY <1>1, <1>2, <1>3 DEF add

\* A new builder, and nothing recorded.
LEMMA NothingFaithful ==
  Faithful(<<>>, <<>>, <<>>, NothingRecorded, {})
<1> DEFINE r == NothingRecorded
           z == [x \in Series |-> 0]
<1>1. /\ r.sum = z /\ r.count = z /\ r.last = z /\ r.samples = <<>> /\ r.occurred = {}
      /\ r \in Record
  BY DEF NothingRecorded, Record
<1>2. <<>> \in Seq(OwnLine) /\ <<>> \in Seq(OwnUnique)
  OBVIOUS
<1>3. \A x : LinesOf(<<>>, x) = {}
  BY DEF LinesOf
<1>4. SumsKept(<<>>, z)
  BY <1>3, NoLinesSum DEF SumsKept
<1>5. TimesKept(<<>>, z, z)
  BY <1>3 DEF TimesKept
<1>6. BudgetKept(<<>>, z, {})
  <2>1. Cardinality({}) = 0
    BY FS_EmptySet
  <2>2. QED
    BY <1>3, <2>1 DEF BudgetKept
<1>7. UniquesKept(<<>>, {}) /\ SamplesKept(<<>>, <<>>)
  BY FS_EmptySet DEF UniquesKept, SamplesKept
<1> HIDE DEF z, r
<1>8. QED
  BY <1>1, <1>2, <1>4, <1>5, <1>6, <1>7 DEF Faithful, r

LEMMA CountFresh ==
  ASSUME newBatchBuilder
  PROVE  CountInv'
<1>1. /\ counters' = <<>> /\ values' = <<>> /\ uniques' = <<>> /\ entries' = <<>>
      /\ seen' = {} /\ recorded' = NothingRecorded
  BY DEF newBatchBuilder
<1>2. Entered' = {} /\ Linked'
  BY <1>1 DEF Entered, Linked
<1>3. NothingRecorded.occurred = {}
  BY DEF NothingRecorded
<1>4. QED
  BY <1>1, <1>2, <1>3, NothingFaithful DEF CountInv

LEMMA CountFrame ==
  ASSUME CountInv, UNCHANGED builder
  PROVE  CountInv'
BY DEF CountInv, Linked, Entered, builder

-----------------------------------------------------------------------------
(* Rounding                                                                *)

\* The integer p is at most half a unit per line off the value v of k lines.
HalfOff(p, v, k) ==
  /\ 2 * (Scale * p - v) <= Scale * k
  /\ -2 * (Scale * p - v) <= Scale * k

LEMMA HalfOffAdd ==
  ASSUME NEW p \in Int, NEW v \in Int, NEW j \in Nat, HalfOff(p, v, j),
         NEW q \in Int, NEW w \in Int, NEW k \in Nat, HalfOff(q, w, k)
  PROVE  HalfOff(p + q, v + w, j + k)
<1>1. Scale \in Int
  BY PipelineAssumption DEF PipelineAssumption
<1>2. Scale * (p + q) = Scale * p + Scale * q /\ Scale * (j + k) = Scale * j + Scale * k
  BY <1>1
<1>3. /\ Scale * p \in Int /\ Scale * q \in Int /\ Scale * j \in Int
      /\ Scale * k \in Int
  BY <1>1
<1>4. QED
  BY <1>2, <1>3 DEF HalfOff

LEMMA HalfOffWiden ==
  ASSUME NEW p \in Int, NEW v \in Int, NEW j \in Nat, NEW k \in Nat,
         HalfOff(p, v, j), j <= k
  PROVE  HalfOff(p, v, k)
<1>1. Scale \in Nat
  BY PipelineAssumption DEF PipelineAssumption
<1>2. Scale * j <= Scale * k /\ Scale * j \in Int /\ Scale * k \in Int
      /\ Scale * p \in Int
  BY <1>1
<1>3. QED
  BY <1>2 DEF HalfOff

LEMMA HalfOffZero == HalfOff(0, 0, 0)
BY PipelineAssumption DEF PipelineAssumption, HalfOff

LEMMA RoundBound ==
  ASSUME NEW v \in Int
  PROVE  Round(v) \in Int /\ HalfOff(Round(v), v, 1)
BY PipelineAssumption DEF PipelineAssumption, Round, HalfOff

\* Lines that are each half a unit off are, together, half a unit off per line.
LEMMA SumOff ==
  ASSUME NEW S, IsFiniteSet(S), NEW c, NEW d,
         \A i \in S : /\ c[i].value \in Int /\ d[i].value \in Int
                      /\ HalfOff(d[i].value, c[i].value, 1)
  PROVE  HalfOff(SumOfLines(d, S), SumOfLines(c, S), Cardinality(S))
<1> DEFINE C(T) == SumOfLines(c, T)
           D(T) == SumOfLines(d, T)
           Within(T) == HalfOff(D(T), C(T), Cardinality(T))
           bad == {k \in Nat : \E T \in SUBSET S : Cardinality(T) = k /\ ~Within(T)}
<1>1. \A T \in SUBSET S : IsFiniteSet(T) /\ Cardinality(T) \in Nat
  BY FS_Subset, FS_CardinalityType
<1>2. bad = {}
  <2>1. SUFFICES ASSUME bad # {} PROVE FALSE
    OBVIOUS
  <2>2. PICK m \in bad : \A k \in bad : m <= k
    <3>1. bad \subseteq Nat
      OBVIOUS
    <3> HIDE DEF bad
    <3>2. QED
      BY <2>1, <3>1, LeastNat
  <2>3. m \in Nat
    OBVIOUS
  <2>4. PICK T \in SUBSET S : Cardinality(T) = m /\ ~Within(T)
    OBVIOUS
  <2>5. T # {}
    <3>1. SumOfLines(c, {}) = 0 /\ SumOfLines(d, {}) = 0 /\ Cardinality({}) = 0
      BY NoLinesSum, FS_EmptySet
    <3>2. QED
      BY <2>4, <3>1, HalfOffZero
  <2>6. PICK n \in T : TRUE
    BY <2>5
  <2> DEFINE U == T \ {n}
  <2>7. /\ U \in SUBSET S /\ IsFiniteSet(U) /\ n \notin U /\ T = U \cup {n}
        /\ Cardinality(U) \in Nat
    BY <1>1, <2>4, <2>6
  <2>8. Cardinality(T) = Cardinality(U) + 1
    BY <2>7, FS_AddElement
  <2>9. Within(U)
    <3>1. Cardinality(U) \notin bad
      <4>1. ~(m <= Cardinality(U))
        BY <2>3, <2>4, <2>7, <2>8
      <4> HIDE DEF bad, U, Within
      <4>2. QED
        BY <2>2, <4>1
    <3> HIDE DEF U, Within
    <3>2. QED
      BY <2>7, <3>1
  <2>10. /\ \A i \in U \cup {n} : c[i].value \in Int /\ d[i].value \in Int
         /\ \A i \in U : c[i].value \in Int /\ d[i].value \in Int
    BY <2>4, <2>6, <2>7
  <2> HIDE DEF U
  <2>11. C(T) = c[n].value + C(U) /\ D(T) = d[n].value + D(U)
    BY <2>7, <2>10, LinesSumAdd
  <2>12. C(U) \in Int /\ D(U) \in Int
    BY <2>7, <2>10, LinesSumType
  <2>13. /\ c[n].value \in Int /\ d[n].value \in Int
         /\ HalfOff(d[n].value, c[n].value, 1)
    BY <2>4, <2>6
  <2> HIDE DEF C, D
  <2>14. HalfOff(d[n].value + D(U), c[n].value + C(U), 1 + Cardinality(U))
    BY <2>7, <2>9, <2>12, <2>13, HalfOffAdd
  <2>15. Within(T)
    <3>1. 1 + Cardinality(U) = Cardinality(T)
      BY <2>7, <2>8
    <3>2. QED
      BY <2>11, <2>14, <3>1
  <2>16. QED
    BY <2>4, <2>15
<1>3. \A T \in SUBSET S : Within(T)
  <2> HIDE DEF Within
  <2>1. QED
    BY <1>1, <1>2
<1>4. QED
  BY <1>3

\* The integers written for a series are half a unit off for each of its lines.
LEMMA WireBound ==
  ASSUME NEW c, NEW v, NEW w, NEW r, NEW a, Faithful(c, v, w, r, a), NEW x \in Series
  PROVE  LET wire  == SumOfLines(Rounded(c), LinesOf(c, x))
             lines == IF x \in a THEN 1 ELSE r.count[x]
         IN  /\ wire \in Int /\ r.sum[x] \in Int /\ lines \in Nat
             /\ HalfOff(wire, r.sum[x], lines)
<1> DEFINE S == LinesOf(c, x)
           d == Rounded(c)
           wire == SumOfLines(d, S)
           lines == IF x \in a THEN 1 ELSE r.count[x]
<1>1. /\ c \in Seq(OwnLine) /\ r.count[x] \in Nat /\ r.sum[x] \in Int
      /\ SumOfLines(c, S) = r.sum[x] /\ Cardinality(S) <= lines
  BY DEF Faithful, SumsKept, BudgetKept, Record
<1>2. /\ IsFiniteSet(S) /\ S \subseteq 1..Len(c) /\ Cardinality(S) \in Nat
      /\ \A i \in 1..Len(c) : c[i].value \in Int
  BY <1>1, LinesOfType
<1>3. \A i \in 1..Len(c) : d[i].value = Round(c[i].value)
  <2>1. \A i \in 1..Len(c) : c[i] \in OwnLine
    BY <1>1, ElementOfSeq
  <2>2. \A i \in 1..Len(c) : d[i] = [c[i] EXCEPT !.value = Round(c[i].value)]
    BY DEF Rounded
  <2>3. \A e \in OwnLine : \A n : [e EXCEPT !.value = n].value = n
    BY DEF OwnLine
  <2> HIDE DEF d
  <2>4. SUFFICES ASSUME NEW i \in 1..Len(c)
                 PROVE  [c[i] EXCEPT !.value = Round(c[i].value)].value = Round(c[i].value)
    BY <2>2
  <2>5. c[i] \in OwnLine
    BY <2>1
  <2>6. QED
    BY <2>3, <2>5, Zenon
<1>4. \A i \in S : /\ c[i].value \in Int /\ d[i].value \in Int
                   /\ HalfOff(d[i].value, c[i].value, 1)
  <2> HIDE DEF S, d
  <2>1. QED
    BY <1>2, <1>3, RoundBound
<1> HIDE DEF S, d
<1>5. wire \in Int
  BY <1>2, <1>4, LinesSumType
<1>6. HalfOff(wire, SumOfLines(c, S), Cardinality(S))
  BY <1>2, <1>4, SumOff
<1>7. lines \in Nat
  BY <1>1
<1> HIDE DEF lines, wire
<1>8. HalfOff(wire, r.sum[x], lines)
  BY <1>1, <1>2, <1>5, <1>6, <1>7, HalfOffWiden
<1>9. QED
  BY <1>1, <1>5, <1>7, <1>8 DEF lines, wire, S, d

-----------------------------------------------------------------------------
(* Payloads on their way                                                   *)

\* A payload with labels of its own reads the same whatever the arrays hold.
LEMMA FaithfulReads ==
  ASSUME NEW p \in FaithfulPayloads
  PROVE  /\ \A x : Lines(p, x) = LinesOf(p.counters, x)
         /\ \A i \in 1..Len(p.values) :
              LabelsOf(p.values[i].labels) = p.values[i].labels
         /\ \A i \in 1..Len(p.uniques) :
              LabelsOf(p.uniques[i].labels) = p.uniques[i].labels
<1>1. \A y \in Series : LabelsOf(y) = y
  BY PoolAssumption DEF LabelsOf, PoolAssumption
<1>2. /\ p.counters \in Seq(OwnLine) /\ p.values \in Seq(OwnLine)
      /\ p.uniques \in Seq(OwnUnique)
  BY DEF FaithfulPayloads
<1>3. /\ \A i \in 1..Len(p.counters) : p.counters[i].labels \in Series
      /\ \A i \in 1..Len(p.values) : p.values[i].labels \in Series
  BY <1>2, LinesOfType
<1>4. \A i \in 1..Len(p.uniques) : p.uniques[i].labels \in Series
  <2>1. \A i \in 1..Len(p.uniques) : p.uniques[i] \in OwnUnique
    BY <1>2, ElementOfSeq
  <2>2. QED
    BY <2>1 DEF OwnUnique
<1>5. QED
  BY <1>1, <1>3, <1>4 DEF Lines, LinesOf

LEMMA FaithfulConserved ==
  ASSUME NEW p \in FaithfulPayloads
  PROVE  Conserved(p)
<1>1. /\ \A x : Lines(p, x) = LinesOf(p.counters, x)
      /\ \A i \in 1..Len(p.values) :
           LabelsOf(p.values[i].labels) = p.values[i].labels
      /\ \A i \in 1..Len(p.uniques) :
           LabelsOf(p.uniques[i].labels) = p.uniques[i].labels
  BY FaithfulReads
<1>2. /\ p.recorded \in Record /\ SumsKept(p.counters, p.recorded.sum)
      /\ TimesKept(p.counters, p.recorded.count, p.recorded.last)
      /\ SamplesKept(p.values, p.recorded.samples)
      /\ UniquesKept(p.uniques, p.recorded.occurred)
  BY DEF FaithfulPayloads, Faithful
<1>3. \A x \in Series : p.recorded.count[x] \in Nat
  BY <1>2 DEF Record
<1>4. \A x \in Series :
        /\ SumOfLines(p.counters, Lines(p, x)) = p.recorded.sum[x]
        /\ p.recorded.count[x] > 0 =>
             /\ \E i \in Lines(p, x) : p.counters[i].time = p.recorded.last[x]
             /\ \A i \in Lines(p, x) : p.counters[i].time <= p.recorded.last[x]
  BY <1>1, <1>2, <1>3 DEF SumsKept, TimesKept
<1>5. {<<LabelsOf(p.uniques[i].labels), p.uniques[i].id>> : i \in 1..Len(p.uniques)}
        = {<<p.uniques[i].labels, p.uniques[i].id>> : i \in 1..Len(p.uniques)}
  BY <1>1
<1>6. SamplesOf(p) = p.recorded.samples
  BY <1>1, <1>2 DEF SamplesOf, SamplesKept
<1>7. QED
  BY <1>2, <1>4, <1>5, <1>6 DEF Conserved, UniquesKept

LEMMA BuildFaithful ==
  ASSUME TableInv, CountInv
  PROVE  build \in FaithfulPayloads
<1>1. /\ counters \in Seq(OwnLine) /\ uniques \in Seq(OwnUnique) /\ recorded \in Record
      /\ Faithful(counters, values, uniques, recorded, Entered)
  BY DEF CountInv, Faithful
<1>2. values \in Seq(OwnLine)
  BY DEF CountInv, Faithful
<1>3. \A j \in 1..Len(entries) :
        LabelsOf(entries[j].labels) = entries[j].labels /\ entries[j].labels \in Series
  BY OwnLabelsRead DEF TableInv
<1>4. Entered \in SUBSET Series
  BY <1>3 DEF Entered
<1>5. {LabelsOf(entries[i].labels) : i \in 1..Len(entries)} = Entered
  BY <1>3 DEF Entered
<1>6. build = [counters |-> counters, values |-> values, uniques |-> uniques,
               recorded |-> recorded, aggregated |-> Entered]
  BY <1>5 DEF build
<1>7. QED
  BY <1>1, <1>2, <1>4, <1>6 DEF FaithfulPayloads

\* A step that neither sends nor queues.
LEMMA SendFrame ==
  ASSUME SendInv, UNCHANGED <<payload, retryQueue, sent>>, pc' = "send" => pc = "send"
  PROVE  SendInv'
BY DEF SendInv, RoundingBounded

LEMMA SendOKKeeps ==
  ASSUME SendInv, SendOK
  PROVE  SendInv'
<1>1. /\ pc = "send" /\ pc' = "release" /\ UNCHANGED retryQueue
      /\ sent' = [x \in Series |->
                    [wire  |-> sent[x].wire + Wire(payload, x),
                     exact |-> sent[x].exact + payload.recorded.sum[x],
                     lines |-> sent[x].lines + LineBudget(payload, x)]]
  BY DEF SendOK
<1>2. payload \in FaithfulPayloads
  BY <1>1 DEF SendInv
<1>3. ASSUME NEW x \in Series
      PROVE  /\ Wire(payload, x) \in Int /\ payload.recorded.sum[x] \in Int
             /\ LineBudget(payload, x) \in Nat
             /\ HalfOff(Wire(payload, x), payload.recorded.sum[x], LineBudget(payload, x))
  <2>1. Lines(payload, x) = LinesOf(payload.counters, x)
    BY <1>2, FaithfulReads
  <2>2. Faithful(payload.counters, payload.values, payload.uniques, payload.recorded,
                 payload.aggregated)
    BY <1>2 DEF FaithfulPayloads
  <2>3. QED
    BY <1>3, <2>1, <2>2, WireBound DEF Wire, LineBudget
<1>4. ASSUME NEW x \in Series
      PROVE  /\ sent[x].wire \in Int /\ sent[x].exact \in Int /\ sent[x].lines \in Nat
             /\ HalfOff(sent[x].wire, sent[x].exact, sent[x].lines)
  BY <1>4 DEF SendInv, RoundingBounded, HalfOff
<1>5. ASSUME NEW x \in Series
      PROVE  /\ sent'[x] \in [wire : Int, exact : Int, lines : Nat]
             /\ HalfOff(sent'[x].wire, sent'[x].exact, sent'[x].lines)
  <2>1. sent'[x] = [wire  |-> sent[x].wire + Wire(payload, x),
                    exact |-> sent[x].exact + payload.recorded.sum[x],
                    lines |-> sent[x].lines + LineBudget(payload, x)]
    BY <1>1, <1>5
  <2>2. HalfOff(sent[x].wire + Wire(payload, x),
                sent[x].exact + payload.recorded.sum[x],
                sent[x].lines + LineBudget(payload, x))
    BY <1>3, <1>4, <1>5, HalfOffAdd
  <2>3. QED
    BY <1>3, <1>4, <1>5, <2>1, <2>2
<1>6. sent' \in [Series -> [wire : Int, exact : Int, lines : Nat]]
  BY <1>1, <1>5
<1>7. RoundingBounded'
  BY <1>5 DEF RoundingBounded, HalfOff
<1>8. QED
  BY <1>1, <1>6, <1>7 DEF SendInv

LEMMA SendFailKeeps ==
  ASSUME SendInv, SendFail
  PROVE  SendInv'
<1>1. /\ pc = "send" /\ pc' = "release" /\ UNCHANGED sent
      /\ retryQueue' = Append(retryQueue, payload) \/ retryQueue' = retryQueue
  BY DEF SendFail
<1>2. payload \in FaithfulPayloads /\ retryQueue \in Seq(FaithfulPayloads)
  BY <1>1 DEF SendInv
<1>3. retryQueue' \in Seq(FaithfulPayloads)
  BY <1>1, <1>2, AppendProperties
<1>4. QED
  BY <1>1, <1>3 DEF SendInv, RoundingBounded

LEMMA ResendKeeps ==
  ASSUME SendInv, Resend
  PROVE  SendInv'
<1>1. /\ retryQueue # <<>> /\ payload' = Head(retryQueue)
      /\ retryQueue' = Tail(retryQueue) /\ UNCHANGED sent
  BY DEF Resend
<1>2. retryQueue \in Seq(FaithfulPayloads)
  BY DEF SendInv
<1>3. payload' \in FaithfulPayloads /\ retryQueue' \in Seq(FaithfulPayloads)
  BY <1>1, <1>2, HeadTailProperties
<1>4. QED
  BY <1>1, <1>3 DEF SendInv, RoundingBounded

-----------------------------------------------------------------------------
(* The theorems                                                            *)

LEMMA PipelineInit == Init => Inv
<1>1. SUFFICES ASSUME Init PROVE Inv
  OBVIOUS
<1>0. /\ pool = [o \in Objects |-> 1]
      /\ event = [o \in Objects |->
                    [typ |-> "none", value |-> 0, uniqueID |-> None, ts |-> 0]]
      /\ array = [o \in Objects |-> None]
      /\ held = <<>> /\ queue = <<>> /\ batch = <<>> /\ added = 0
  BY <1>1 DEF Init, PoolInit
<1>2. FlowTypeOK
  <2>1. [typ |-> "none", value |-> 0, uniqueID |-> None, ts |-> 0] \in EventFields
    BY DEF EventFields
  <2>2. queue \in Seq(Objects) /\ batch \in Seq(Objects) /\ 0 \in 0..Len(batch)
    BY <1>0
  <2>3. QED
    BY <1>0, <2>1, <2>2 DEF FlowTypeOK
<1>3. OneOwner
  BY <1>0, OccurrencesEmpty DEF OneOwner
<1>4. Filled
  BY <1>0 DEF Filled
<1>5. /\ counters = <<>> /\ values = <<>> /\ uniques = <<>> /\ entries = <<>>
      /\ aggs = [h \in Hashes |-> 0]
  BY <1>1 DEF Init, BuilderInit
<1>6. OwnLabels /\ SeriesOnce
  BY <1>5 DEF OwnLabels, SeriesOnce
<1>7. BuilderTypeOK
  BY <1>5, BuilderTypes, BuilderAssumption DEF BuilderAssumption
<1>8. Chained /\ \A j \in 1..Len(entries) : entries[j].next < j
  BY <1>5 DEF Chained
<1>9. CountInv
  <2>1. /\ Entered = {} /\ Linked /\ seen = {} /\ recorded = NothingRecorded
        /\ NothingRecorded.occurred = {}
    BY <1>1, <1>5 DEF Init, BuilderInit, Entered, Linked, NothingRecorded
  <2>2. QED
    BY <1>5, <2>1, NothingFaithful DEF CountInv
<1>10. SendInv
  <2>1. /\ pc = "select" /\ retryQueue = <<>>
        /\ sent = [x \in Series |-> [wire |-> 0, exact |-> 0, lines |-> 0]]
    BY <1>1 DEF Init
  <2>2. RoundingBounded
    BY <2>1, PipelineAssumption DEF RoundingBounded, PipelineAssumption
  <2>3. QED
    BY <2>1, <2>2 DEF SendInv
<1>11. QED
  BY <1>2, <1>3, <1>4, <1>6, <1>7, <1>8, <1>9, <1>10, BucketsRead
     DEF Inv, FlowInv, TableInv

\* The objects of the batch are out of the pool, and so filled.
LEMMA BatchFilled ==
  ASSUME FlowInv, NEW i \in 1..Len(batch)
  PROVE  /\ batch[i] \in Objects
         /\ event[batch[i]] \in Recordings /\ array[batch[i]] \in Series
<1>1. batch \in Seq(Objects) /\ queue \in Seq(Objects) /\ held \in Seq(Objects)
  BY HeldType DEF FlowInv, FlowTypeOK
<1>2. batch[i] \in Objects
  BY <1>1, ElementOfSeq
<1>3. /\ pool[batch[i]] \in Nat /\ Occurrences(batch[i], held) \in Nat
      /\ Occurrences(batch[i], queue) \in Nat /\ Occurrences(batch[i], batch) \in Nat
  BY <1>1, <1>2, OccurrencesType DEF FlowInv, FlowTypeOK
<1>4. Occurrences(batch[i], batch) >= 1
  BY <1>1, OccurrencesPositive
<1>5. pool[batch[i]] + Occurrences(batch[i], held) + Occurrences(batch[i], queue)
        + Occurrences(batch[i], batch) = 1
  BY <1>2 DEF FlowInv, OneOwner
<1>6. pool[batch[i]] = 0
  BY <1>3, <1>4, <1>5
<1>7. QED
  BY <1>2, <1>6 DEF FlowInv, Filled

LEMMA PipelineStep == Inv /\ [Next]_vars => Inv'
<1>1. SUFFICES ASSUME Inv, [Next]_vars PROVE Inv'
  OBVIOUS
<1>2. FlowInv /\ TableInv /\ CountInv /\ SendInv /\ batch \in Seq(Objects) /\ Len(batch) \in Nat
      /\ added \in 0..Len(batch) /\ (pc # "build" => added = 0)
  BY <1>1, LenProperties DEF Inv, FlowInv, FlowTypeOK
<1>3. ASSUME NEW o \in Objects, NEW x \in Series, NEW ev \in Recordings,
             Borrow(o, x, ev)
      PROVE  Inv'
  <2>1. /\ UNCHANGED <<builder, payload, retryQueue, sent>>
        /\ pc' = "send" => pc = "send"
    BY <1>3 DEF Borrow
  <2>2. QED
    BY <1>2, <1>3, <2>1, BorrowKeeps, BuilderFrame, CountFrame,
       SendFrame DEF Inv
<1>4. CASE Enqueue
  <2>1. /\ UNCHANGED <<builder, payload, retryQueue, sent>>
        /\ pc' = "send" => pc = "send"
    BY <1>4 DEF Enqueue
  <2>2. QED
    BY <1>2, <1>4, <2>1, EnqueueKeeps, BuilderFrame, CountFrame,
       SendFrame DEF Inv
<1>5. CASE Receive
  <2>1. /\ UNCHANGED <<builder, payload, retryQueue, sent>>
        /\ pc' = "send" => pc = "send"
    BY <1>5 DEF Receive
  <2>2. QED
    BY <1>2, <1>5, <2>1, ReceiveKeeps, BuilderFrame, CountFrame,
       SendFrame DEF Inv
<1>6. CASE Absorb
  <2>1. /\ UNCHANGED <<builder, payload, retryQueue, sent>>
        /\ pc' = "send" => pc = "send"
    BY <1>6 DEF Absorb
  <2>2. QED
    BY <1>2, <1>6, <2>1, AbsorbKeeps, BuilderFrame, CountFrame,
       SendFrame DEF Inv
<1>7. CASE Flush
  <2>1. /\ pc = "select"
        /\ UNCHANGED <<pool, event, array, held, queue, batch, added, builder>>
        /\ UNCHANGED <<payload, retryQueue, sent>> /\ pc' # "send"
    BY <1>7 DEF Flush
  <2>2. added' = 0 /\ added' \in 0..Len(batch)
    BY <1>2, <2>1
  <2>3. QED
    BY <1>2, <2>1, <2>2, FlowFrame, BuilderFrame, CountFrame, SendFrame DEF Inv
<1>8. CASE Add
  <2>1. /\ pc = "build" /\ added < Len(batch) /\ add(batch[added + 1])
        /\ added' = added + 1
        /\ UNCHANGED <<pool, event, array, held, queue, batch, pc>>
        /\ UNCHANGED <<payload, retryQueue, sent>>
    BY <1>8 DEF Add
  <2>2. added + 1 \in 1..Len(batch) /\ added' \in 0..Len(batch)
    BY <1>2, <2>1
  <2>3. FlowInv'
    BY <1>2, <2>1, <2>2, FlowFrame
  <2>4. TableInv' /\ CountInv'
    <3>1. /\ batch[added + 1] \in Objects
          /\ event[batch[added + 1]] \in Recordings
          /\ array[batch[added + 1]] \in Series
      BY <1>2, <2>2, BatchFilled
    <3>2. QED
      BY <1>2, <2>1, <3>1, AddKeeps, AddCounts
  <2>5. QED
    BY <1>2, <2>1, <2>3, <2>4, SendFrame DEF Inv
<1>9. CASE Build
  <2>1. /\ newBatchBuilder /\ added' = 0 /\ pc' = "send"
        /\ UNCHANGED <<pool, event, array, held, queue, batch>>
        /\ payload' = build /\ UNCHANGED <<retryQueue, sent>>
    BY <1>9 DEF Build
  <2>2. 0 \in 0..Len(batch)
    BY <1>2
  <2>3. SendInv'
    BY <1>2, <2>1, BuildFaithful DEF SendInv, RoundingBounded
  <2>4. QED
    BY <1>2, <2>1, <2>2, <2>3, FlowFrame, TableFresh, CountFresh DEF Inv
<1>10. CASE SendOK \/ SendFail \/ Resend
  <2>1. /\ pc \in {"select", "send"}
        /\ UNCHANGED <<pool, event, array, held, queue, batch, added, builder>>
    BY <1>10 DEF SendOK, SendFail, Resend
  <2>2. added' = 0 /\ added' \in 0..Len(batch)
    BY <1>2, <2>1
  <2>3. SendInv'
    BY <1>2, <1>10, SendOKKeeps, SendFailKeeps, ResendKeeps
  <2>4. QED
    BY <1>2, <2>1, <2>2, <2>3, FlowFrame, BuilderFrame, CountFrame DEF Inv
<1>11. CASE Release
  <2>1. /\ UNCHANGED <<builder, payload, retryQueue, sent>>
        /\ pc' = "send" => pc = "send"
    BY <1>11 DEF Release
  <2>2. QED
    BY <1>2, <1>11, <2>1, ReleaseBatchKeeps, BuilderFrame, CountFrame,
       SendFrame DEF Inv
<1>12. CASE UNCHANGED vars
  <2>1. UNCHANGED <<pool, event, array, held, queue, batch, added, pc, builder,
                    payload, retryQueue, sent>>
    BY <1>12 DEF vars, flow
  <2>2. QED
    BY <1>2, <2>1, FlowFrame, BuilderFrame, CountFrame, SendFrame DEF Inv
<1>13. QED
  BY <1>1, <1>3, <1>4, <1>5, <1>6, <1>7, <1>8, <1>9, <1>10, <1>11, <1>12 DEF Next, Idle

LEMMA PipelineInv == Spec => []Inv
BY PipelineInit, PipelineStep, PTL DEF Spec

\* An event object has one owner at a time, for any number of objects and callers'
\* events and every size of the queue and the batch: no path of enqueue, run and
\* releaseEvent puts an object back twice or loses it (event.go:34-63,
\* client.go:323-352).
THEOREM PipelineOneOwner == Spec => []OneOwner
<1>1. Inv => OneOwner
  BY DEF Inv, FlowInv
<1>2. QED
  BY <1>1, PipelineInv, PTL

\* The builder's hash table stays sound and the lookup of addCounter exact, for every
\* set of series and every hash function, however many series collide: it returns the
\* entry of the series when there is one and 0 when there is none; and no series has
\* two entries (batch_builder.go:54-92).
THEOREM PipelineLookup == Spec => [](LookupExact /\ SeriesOnce)
<1>1. Inv => LookupExact /\ SeriesOnce
  <2>1. SUFFICES ASSUME Inv, NEW x \in Series
                 PROVE  LET found == Find(x, aggs[Hash[x]]) IN
                          IF \E j \in 1..Len(entries) : LabelsOf(entries[j].labels) = x
                            THEN found # 0 /\ LabelsOf(entries[found].labels) = x
                            ELSE found = 0
    BY DEF LookupExact, Inv, TableInv
  <2> DEFINE found == Find(x, aggs[Hash[x]])
  <2>2. /\ found \in 0..Len(entries)
        /\ found # 0 => entries[found].labels = x
        /\ found = 0 => \A j \in 1..Len(entries) : entries[j].labels # x
    BY <2>1, FindCorrect DEF Inv, TableInv
  <2>3. Len(entries) \in Nat
    BY <2>1, TableLinks DEF Inv, TableInv
  <2>4. \A j \in 1..Len(entries) : LabelsOf(entries[j].labels) = entries[j].labels
    BY <2>1, OwnLabelsRead DEF Inv, TableInv
  <2> HIDE DEF found
  <2>5. found # 0 => found \in 1..Len(entries)
    BY <2>2, <2>3
  <2>6. QED
    BY <2>2, <2>4, <2>5 DEF found
<1>2. QED
  BY <1>1, PipelineInv, PTL

\* Nothing recorded is lost, doubled or put on another series, in the builder, in the
\* payload being sent and in every payload that waits for a retry, for every set of
\* series and hash function, every cap on the series of a batch, and whatever the
\* callers meanwhile write into the released objects: the labels of a payload are
\* copies (batch_builder.go:43-110, event.go:35-46).
THEOREM PipelineConserved == Spec => []PayloadConserved
<1>1. Inv => PayloadConserved
  <2>1. SUFFICES ASSUME Inv PROVE PayloadConserved
    OBVIOUS
  <2>2. Conserved(build)
    BY <2>1, BuildFaithful, FaithfulConserved DEF Inv
  <2>3. pc = "send" => Conserved(payload)
    BY <2>1, FaithfulConserved DEF Inv, SendInv
  <2>4. \A i \in 1..Len(retryQueue) : retryQueue[i] \in FaithfulPayloads
    BY <2>1, ElementOfSeq DEF Inv, SendInv
  <2>5. QED
    BY <2>2, <2>3, <2>4, FaithfulConserved DEF PayloadConserved
<1>2. QED
  BY <1>1, PipelineInv, PTL

\* What the ingester counts of a series is at most half a unit off what was recorded
\* for each aggregated line, or beyond the cap on series for each event, for every
\* Scale and all values, positive or negative (line_protocol_v4.go:76,
\* batch_builder.go:54-93).
THEOREM PipelineRounding == Spec => []RoundingBounded
<1>1. Inv => RoundingBounded
  BY DEF Inv, SendInv
<1>2. QED
  BY <1>1, PipelineInv, PTL

=============================================================================
