----------------------------- MODULE EventPool -----------------------------
(***************************************************************************)
(* The pool of event objects (event.go).  A call borrows an object, fills  *)
(* it and writes its labels into the object's own backing array, which the *)
(* next borrower overwrites; releasing an object puts it back and clears   *)
(* its fields, but neither the array nor the time stamp.                   *)
(*                                                                         *)
(* A series stands for the labels (the metric's name is an immutable       *)
(* string and cannot be shared by accident).  A label slice elsewhere is   *)
(* either an array of its own, given by its contents, or an object, when   *)
(* it shares the array of that object.                                     *)
(***************************************************************************)
EXTENDS Integers, Sequences, FiniteSets

CONSTANTS
  Objects,               \* bound: the event objects there are
  Series,
  UniqueIds,
  Deltas,                \* the values counters are incremented by
  Samples,               \* the values of samples
  Times,                 \* the seconds at which callers record events
  None                   \* no labels yet, no unique id

\* The events the public methods make; the time of a unique occurrence is copied and
\* never looked at.
Recordings ==
       [typ : {"counter"}, value : Deltas, uniqueID : {None}, ts : Times]
  \cup [typ : {"value"}, value : Samples, uniqueID : {None}, ts : Times]
  \cup [typ : {"unique"}, value : {0}, uniqueID : UniqueIds, ts : {0}]

ASSUME PoolAssumption ==
  /\ Deltas \subseteq Int /\ Samples \subseteq Int /\ Times \subseteq Nat
  /\ None \notin Series \cup UniqueIds
  /\ Objects \cap Series = {}

VARIABLES
  pool,      \* object -> how often it lies in eventPool
  event,     \* object -> its fields but for the labels
  array      \* object -> what the backing array of its labels holds

\* The objects a pool hands out at first are the ones its New makes.
PoolInit ==
  /\ pool = [o \in Objects |-> 1]
  /\ event = [o \in Objects |->
                [typ |-> "none", value |-> 0, uniqueID |-> None, ts |-> 0]]
  /\ array = [o \in Objects |-> None]

borrowEvent(o, x, ev) ==
  /\ pool[o] > 0
  /\ pool' = [pool EXCEPT ![o] = @ - 1]
  /\ event' = [event EXCEPT ![o] = ev]
  /\ array' = [array EXCEPT ![o] = x]

\* releaseEvent of each object of a sequence; one that occurs twice is put back
\* twice.
releaseEvents(s) ==
  /\ pool' = [o \in Objects |->
                pool[o] + Cardinality({i \in 1..Len(s) : s[i] = o})]
  /\ event' = [o \in Objects |->
                 IF \E i \in 1..Len(s) : s[i] = o
                   THEN [event[o] EXCEPT !.typ = "none", !.value = 0,
                                         !.uniqueID = None]
                   ELSE event[o]]
  /\ UNCHANGED array

\* Mutant: the payload shares the event's array.
cloneLabels_Shared(o) == o

\* What the payload keeps of the labels of event o: a copy.
cloneLabels(o) == array[o]

\* The labels a slice shows now.
LabelsOf(slice) == IF slice \in Objects THEN array[slice] ELSE slice

=============================================================================
