---------------------------- MODULE BatchBuilder ----------------------------
(***************************************************************************)
(* The batch builder (batch_builder.go): the worker adds events to it, and *)
(* counters of the same series are summed into one line of the payload.    *)
(* The line of a series is found through a hash table whose buckets are    *)
(* lists threaded through counterEntries; series may share a hash.  Beyond *)
(* defaultMaxSeriesPerBatch series a counter gets a line of its own.       *)
(*                                                                         *)
(* Hash stands for seriesHash.  Indices count from 1 as the code's stored  *)
(* indices do (0: end of list).  A value is a number of Scale-ths: the     *)
(* code's sums of doubles are exact for these up to 2^53.                  *)
(***************************************************************************)
EXTENDS EventPool, Folds

CONSTANTS
  Hashes,
  Hash,                  \* series -> hash
  MaxSeriesPerBatch      \* defaultMaxSeriesPerBatch

ASSUME BuilderAssumption ==
  /\ Hash \in [Series -> Hashes]
  /\ MaxSeriesPerBatch \in Nat

VARIABLES
  counters,   \* payload.Counters
  values,     \* payload.Values
  uniques,    \* payload.Uniques
  entries,    \* counterEntries
  aggs,       \* counterAggs: hash -> index of the newest entry of its bucket
  seen,       \* uniqueSeen
  recorded    \* history: what the events added since newBatchBuilder recorded

builder == <<counters, values, uniques, entries, aggs, seen, recorded>>

\* Per series the sum of its increments, their number and the latest of their
\* times; the samples in their order; and the unique occurrences.
NothingRecorded ==
  [sum |-> [x \in Series |-> 0], count |-> [x \in Series |-> 0],
   last |-> [x \in Series |-> 0], samples |-> <<>>, occurred |-> {}]

BuilderInit ==
  /\ counters = <<>> /\ values = <<>> /\ uniques = <<>>
  /\ entries = <<>> /\ aggs = [h \in Hashes |-> 0] /\ seen = {}
  /\ recorded = NothingRecorded

newBatchBuilder ==
  /\ counters' = <<>> /\ values' = <<>> /\ uniques' = <<>>
  /\ entries' = <<>> /\ aggs' = [h \in Hashes |-> 0] /\ seen' = {}
  /\ recorded' = NothingRecorded

-----------------------------------------------------------------------------

\* Mutant: series are told apart by their hashes only.
SameSeries_ByHash(x, y) == Hash[x] = Hash[y]

\* entry.metric and entry.labels against those of the event
SameSeries(x, y) == x = y

\* Walk the list from entry i to the entry of series x; 0 if it has none.
Find(x, i) ==
  LET walk[j \in 0..Len(entries)] ==
        IF j = 0 \/ SameSeries(LabelsOf(entries[j].labels), x) THEN j
        ELSE walk[entries[j].next]
  IN  walk[i]

\* The time of an aggregated line; the events need not come in order of time.
Later(t, u) == IF u > t THEN u ELSE t

\* Mutant: the list of a bucket is lost when a series is added to it.
NextInBucket_Lost(x) == 0

\* The list a new entry is put in front of.
NextInBucket(x) == aggs[Hash[x]]

AggregationFull == Len(entries) >= MaxSeriesPerBatch

addCounter(o) ==
  LET x     == array[o]
      d     == event[o].value
      t     == event[o].ts
      found == Find(x, aggs[Hash[x]])
  IN
  /\ \/ /\ found # 0
        /\ LET i == entries[found].payloadIndex IN
             counters' = [counters EXCEPT ![i].value = @ + d,
                                          ![i].time = Later(@, t)]
        /\ UNCHANGED <<entries, aggs>>
     \/ /\ found = 0
        /\ counters' = Append(counters, [labels |-> cloneLabels(o),
                                         value |-> d, time |-> t])
        /\ IF AggregationFull
             THEN UNCHANGED <<entries, aggs>>
             ELSE /\ entries' = Append(entries,
                       [labels |-> cloneLabels(o), next |-> NextInBucket(x),
                        payloadIndex |-> Len(counters) + 1])
                  /\ aggs' = [aggs EXCEPT ![Hash[x]] = Len(entries) + 1]
  /\ recorded' = [recorded EXCEPT !.sum[x] = @ + d, !.count[x] = @ + 1,
                                  !.last[x] = IF t > @ THEN t ELSE @]
  /\ UNCHANGED <<values, uniques, seen>>

\* Mutant: a sample shares the labels of its event.
addValue_Shared(o) ==
  /\ values' = Append(values, [labels |-> o, value |-> event[o].value,
                               time |-> event[o].ts])
  /\ recorded' = [recorded EXCEPT !.samples =
                     Append(@, <<array[o], event[o].value, event[o].ts>>)]
  /\ UNCHANGED <<counters, uniques, entries, aggs, seen>>

\* The case of a sample in add: it is never aggregated.
addValue(o) ==
  /\ values' = Append(values, [labels |-> cloneLabels(o), value |-> event[o].value,
                               time |-> event[o].ts])
  /\ recorded' = [recorded EXCEPT !.samples =
                     Append(@, <<array[o], event[o].value, event[o].ts>>)]
  /\ UNCHANGED <<counters, uniques, entries, aggs, seen>>

\* The key under which a unique occurrence is remembered.
UniqueKey(x, u) == <<x, u>>

addUnique(o) ==
  LET x == array[o]
      u == event[o].uniqueID
  IN
  /\ IF UniqueKey(x, u) \in seen
       THEN UNCHANGED <<seen, uniques>>
       ELSE /\ seen' = seen \cup {UniqueKey(x, u)}
            /\ uniques' = Append(uniques, [labels |-> cloneLabels(o), id |-> u])
  /\ recorded' = [recorded EXCEPT !.occurred = @ \cup {<<x, u>>}]
  /\ UNCHANGED <<counters, values, entries, aggs>>

add(o) ==
  \/ event[o].typ = "counter" /\ addCounter(o)
  \/ event[o].typ = "value" /\ addValue(o)
  \/ event[o].typ = "unique" /\ addUnique(o)

\* build; recorded and aggregated travel along for the properties.
build ==
  [counters |-> counters, values |-> values, uniques |-> uniques,
   recorded |-> recorded,
   aggregated |-> {LabelsOf(entries[i].labels) : i \in 1..Len(entries)}]

-----------------------------------------------------------------------------
(* Properties                                                              *)

\* The lines of series x in a payload, as they read now.
Lines(p, x) == {i \in 1..Len(p.counters) : LabelsOf(p.counters[i].labels) = x}

SumOver(S, f(_)) == MapThenFoldSet(+, 0, f, LAMBDA T : CHOOSE i \in T : TRUE, S)

\* What the lines S of a payload's counters add up to.
SumOfLines(lines, S) == SumOver(S, LAMBDA i : lines[i].value)

\* The samples of a payload, as they read now.
SamplesOf(p) ==
  [i \in 1..Len(p.values) |->
     <<LabelsOf(p.values[i].labels), p.values[i].value, p.values[i].time>>]

\* p holds what was recorded: the lines of a series add up to its increments, the
\* latest of them has the time of the latest increment, the samples are the ones
\* recorded, each of its series, value and time, and every unique occurrence is
\* there exactly once.
Conserved(p) ==
  /\ \A x \in Series :
       /\ SumOfLines(p.counters, Lines(p, x)) = p.recorded.sum[x]
       /\ p.recorded.count[x] > 0 =>
            /\ \E i \in Lines(p, x) : p.counters[i].time = p.recorded.last[x]
            /\ \A i \in Lines(p, x) : p.counters[i].time <= p.recorded.last[x]
  /\ SamplesOf(p) = p.recorded.samples
  /\ {<<LabelsOf(p.uniques[i].labels), p.uniques[i].id>> :
        i \in 1..Len(p.uniques)} = p.recorded.occurred
  /\ Len(p.uniques) = Cardinality(p.recorded.occurred)

\* Type correctness of the builder: every index it keeps is in range, so that no
\* lookup panics.
BuilderTypeOK ==
  /\ counters \in Seq([labels : Series \cup Objects, value : Int, time : Nat])
  /\ values \in Seq([labels : Series \cup Objects, value : Int, time : Nat])
  /\ uniques \in Seq([labels : Series \cup Objects, id : UniqueIds])
  /\ entries \in Seq([labels : Series \cup Objects, next : 0..Len(entries),
                      payloadIndex : 1..Len(counters)])
  /\ aggs \in [Hashes -> 0..Len(entries)]
  /\ Len(entries) <= MaxSeriesPerBatch

\* The hash table is sound: its indices are in range, and from the head of every
\* bucket the list leads, through ever older entries, to every entry of that hash
\* and no other (batch_builder.go:56-58, 86-92).
Buckets ==
  /\ BuilderTypeOK
  /\ \A j \in 1..Len(entries) : entries[j].next < j
  /\ LET HashOf(j) == Hash[LabelsOf(entries[j].labels)] IN
     \A h \in Hashes :
       {j \in 1..Len(entries) : HashOf(j) = h} =
         {j \in 1..Len(entries) :
            j = aggs[h] \/ \E k \in 1..Len(entries) :
                             entries[k].next = j /\ HashOf(k) = h}

\* The lookup is exact: the table is sound, and for every series, whatever others
\* share its bucket, the walk returns the entry of that series if there is one and 0
\* if there is none; a line of another series would take its increments, a missed one
\* would make the series start another line (batch_builder.go:54-92).
LookupExact ==
  /\ Buckets
  /\ \A x \in Series :
       LET found == Find(x, aggs[Hash[x]]) IN
         IF \E j \in 1..Len(entries) : LabelsOf(entries[j].labels) = x
           THEN found # 0 /\ LabelsOf(entries[found].labels) = x
           ELSE found = 0

=============================================================================
