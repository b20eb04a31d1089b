----------------------- MODULE ValueRateLimiterProofs -----------------------
(***************************************************************************)
(* The limiter's promises (ValueRateLimiter.tla) for every number of       *)
(* goroutines, every wall clock and every limit its counter can hold.      *)
(***************************************************************************)
EXTENDS ValueRateLimiter, TLAPS

\* What the word says about the samples let through: none of a later second,
\* exactly its count of the second it is in, at most the limit of any other.
Accurate ==
  /\ \A w \in Seconds : granted[w] <= maxValueEventsPerSecond
  /\ \A w \in Seconds : w > Window(state) => granted[w] = 0
  /\ \A w \in Seconds : w = Window(state) => granted[w] = Count(state)

\* A goroutine about to swap has loaded a word that lets its sample through.
Entitled ==
  \A t \in Threads :
    pc[t] = "cas" => /\ Window(seen[t]) <= second[t]
                     /\ Window(seen[t]) = second[t] => ~Exhausted(seen[t])

LimiterInv == TypeOK /\ Accurate /\ Entitled /\ DenialJustified

-----------------------------------------------------------------------------
(* The packed word                                                         *)

\* The mask is all that the proofs need of the number of bits.
LEMMA Mask == rateLimitCounterMask \in Nat \ {0}
  BY SMTT(30) DEF rateLimitCounterMask

\* The two halves of the word are numbers, and it is made of them.
LEMMA WordParts ==
  ASSUME NEW s \in Nat
  PROVE  /\ Window(s) \in Nat
         /\ Count(s) \in 0..rateLimitCounterMask
         /\ s = Pack(Window(s), Count(s))
  BY SMTT(30) DEF Window, Count, Pack, rateLimitCounterMask

\* A packed word unpacks to what it was made of.
LEMMA WordPack ==
  ASSUME NEW w \in Nat, NEW c \in 0..rateLimitCounterMask
  PROVE  /\ Pack(w, c) \in Nat
         /\ Window(Pack(w, c)) = w
         /\ Count(Pack(w, c)) = c
<1>1. c \in Nat /\ c < 65536
  BY SMTT(30) DEF rateLimitCounterMask
<1>2. Pack(w, c) = w * 65536 + c
  BY SMTT(30) DEF Pack, rateLimitCounterMask
<1>3. Pack(w, c) \in Nat
  BY <1>1, <1>2, SMTT(30)
<1>4. Window(Pack(w, c)) = Pack(w, c) \div 65536
  BY SMTT(30) DEF Window, rateLimitCounterMask
<1>5. Window(Pack(w, c)) = w
  BY <1>1, <1>2, <1>4, SMTT(30)
<1>6. Count(Pack(w, c)) = Pack(w, c) % 65536
  BY SMTT(30) DEF Count, rateLimitCounterMask
<1>7. Count(Pack(w, c)) = c
  BY <1>1, <1>2, <1>6, SMTT(30)
<1>8. QED
  BY <1>3, <1>5, <1>7

\* Counting one more is packing a larger count.
LEMMA PackSuccessor ==
  ASSUME NEW w \in Nat, NEW c \in Nat
  PROVE  Pack(w, c) + 1 = Pack(w, c + 1)
  BY SMTT(30) DEF Pack, rateLimitCounterMask

\* Counting a sample changes the counter only, or opens a later window with it
\* (value_rate_limiter.go:32, 42).
LEMMA SwappedParts ==
  ASSUME NEW s \in Nat, NEW w \in Nat, Window(s) <= w,
         Window(s) = w => ~Exhausted(s)
  PROVE  /\ Swapped(s, w) \in Nat
         /\ Window(Swapped(s, w)) = w
         /\ Count(Swapped(s, w)) = IF Window(s) = w THEN Count(s) + 1 ELSE 1
         /\ Count(Swapped(s, w)) <= maxValueEventsPerSecond
<1>1. CASE Window(s) = w
  <2>1. Count(s) \in Nat /\ s = Pack(w, Count(s))
    BY <1>1, WordParts, Mask
  <2>2. Count(s) < maxValueEventsPerSecond
    BY <1>1, <2>1, LimiterAssumption, Mask DEF Exhausted
  <2>3. Count(s) + 1 \in 0..rateLimitCounterMask
    BY <2>1, <2>2, LimiterAssumption, Mask
  <2>4. Swapped(s, w) = Pack(w, Count(s) + 1)
    BY <1>1, <2>1, PackSuccessor DEF Swapped
  <2>5. QED
    BY <1>1, <2>1, <2>2, <2>3, <2>4, WordPack, LimiterAssumption, Mask
<1>2. CASE Window(s) # w
  <2>1. Swapped(s, w) = Pack(w, 1) /\ 1 \in 0..rateLimitCounterMask
    BY <1>2, Mask DEF Swapped
  <2>2. QED
    BY <1>2, <2>1, WordPack, LimiterAssumption, Mask
<1>3. QED
  BY <1>1, <1>2

-----------------------------------------------------------------------------
LEMMA LimiterInit == Init => LimiterInv
<1> SUFFICES ASSUME Init PROVE LimiterInv
  OBVIOUS
<1>1. Window(0) = 0 /\ Count(0) = 0
  BY SMTT(30) DEF Window, Count, rateLimitCounterMask
<1>2. TypeOK
  BY <1>1, LimiterAssumption DEF Init, TypeOK
<1>3. Accurate
  BY <1>1, LimiterAssumption DEF Init, Accurate
<1>4. Entitled /\ DenialJustified
  BY DEF Init, Entitled, DenialJustified
<1>5. QED
  BY <1>2, <1>3, <1>4 DEF LimiterInv

LEMMA LimiterStep == LimiterInv /\ [Next]_vars => LimiterInv'
<1> SUFFICES ASSUME LimiterInv, [Next]_vars PROVE LimiterInv'
  OBVIOUS
<1> USE DEF LimiterInv
<1>1. CASE Clock
  BY <1>1 DEF Clock, TypeOK, Accurate, Entitled,
              DenialJustified
<1>2. ASSUME NEW t \in Threads, Enter(t) PROVE LimiterInv'
  <2>1. TypeOK'
    BY <1>2 DEF Enter, TypeOK
  <2>2. Accurate'
    BY <1>2 DEF Enter, Accurate
  <2>3. Entitled' /\ DenialJustified'
    BY <1>2 DEF Enter, TypeOK, Entitled, DenialJustified
  <2>4. QED
    BY <2>1, <2>2, <2>3
<1>3. ASSUME NEW t \in Threads, Load(t) PROVE LimiterInv'
  <2>1. TypeOK'
    BY <1>3 DEF Load, TypeOK
  <2>2. Accurate'
    BY <1>3 DEF Load, Accurate
  <2>3. /\ state \in Nat /\ second[t] \in Seconds
        /\ Window(state) \in Nat /\ second[t] \in Nat
    BY WordParts, LimiterAssumption DEF TypeOK
  <2>4. Entitled'
    <3>1. ASSUME NEW u \in Threads, pc'[u] = "cas"
          PROVE  /\ Window(seen'[u]) <= second'[u]
                 /\ Window(seen'[u]) = second'[u] => ~Exhausted(seen'[u])
      <4>1. CASE u = t
        BY <1>3, <2>3, <3>1, <4>1 DEF Load, TypeOK, Overtaken
      <4>2. CASE u # t
        BY <1>3, <3>1, <4>2 DEF Load, TypeOK, Entitled
      <4>3. QED
        BY <4>1, <4>2
    <3>2. QED
      BY <3>1 DEF Entitled
  <2>5. DenialJustified'
    <3>1. ASSUME NEW u \in Threads, pc'[u] = "denied"
          PROVE  \/ Window(state) > second[u]
                 \/ granted[second[u]] = maxValueEventsPerSecond
      <4>1. CASE u = t
        <5>1. \/ Window(state) > second[t]
              \/ Window(state) = second[t] /\ Exhausted(state)
          BY <1>3, <3>1, <4>1 DEF Load, TypeOK, Overtaken
        <5>2. CASE Window(state) = second[t] /\ Exhausted(state)
          BY <2>3, <4>1, <5>2, WordParts, LimiterAssumption
             DEF Accurate, TypeOK, Exhausted
        <5>3. QED
          BY <4>1, <5>1, <5>2
      <4>2. CASE u # t
        BY <1>3, <3>1, <4>2 DEF Load, TypeOK, DenialJustified
      <4>3. QED
        BY <4>1, <4>2
    <3>2. QED
      BY <1>3, <3>1 DEF Load, DenialJustified
  <2>6. QED
    BY <2>1, <2>2, <2>4, <2>5
<1>4. ASSUME NEW t \in Threads, CompareAndSwap(t) PROVE LimiterInv'
  <2>1. CASE ~Current(t)
    <3>1. /\ pc' = [pc EXCEPT ![t] = "load"]
          /\ UNCHANGED <<state, now, second, seen, granted>>
      BY <1>4, <2>1 DEF CompareAndSwap
    <3>2. QED
      BY <3>1 DEF TypeOK, Accurate, Entitled, DenialJustified
  <2>2. CASE Current(t)
    <3> DEFINE w == second[t]
    <3>1. /\ pc[t] = "cas"
          /\ pc' = [pc EXCEPT ![t] = "granted"]
          /\ state' = Swapped(state, w)
          /\ granted' = [granted EXCEPT ![w] = granted[w] + 1]
          /\ UNCHANGED <<now, second, seen>>
      BY <1>4, <2>2 DEF CompareAndSwap, Current
    <3>2. /\ state \in Nat /\ w \in Seconds /\ w \in Nat
          /\ granted \in [Seconds -> Nat]
          /\ Window(state) \in Nat /\ Count(state) \in Nat
          /\ Window(state) <= w
          /\ Window(state) = w => ~Exhausted(state)
      <4>1. /\ state \in Nat /\ w \in Seconds /\ granted \in [Seconds -> Nat]
            /\ Window(state) <= w
            /\ Window(state) = w => ~Exhausted(state)
        BY <2>2, <3>1 DEF TypeOK, Entitled, Current
      <4>2. w \in Nat
        BY <4>1, LimiterAssumption
      <4>3. Window(state) \in Nat /\ Count(state) \in Nat
        BY <4>1, WordParts, Mask
      <4>4. QED
        BY <4>1, <4>2, <4>3
    <3>3. /\ state' \in Nat /\ Window(state') = w
          /\ Count(state') = IF Window(state) = w THEN Count(state) + 1 ELSE 1
          /\ Count(state') <= maxValueEventsPerSecond
      BY <3>1, <3>2, SwappedParts
    <3>4. granted'[w] = Count(state')
      BY <3>1, <3>2, <3>3 DEF Accurate
    <3>5. TypeOK'
      BY <3>1, <3>2, <3>3 DEF TypeOK
    <3>6. Accurate'
      <4>1. \A v \in Seconds : granted'[v] <= maxValueEventsPerSecond
        BY <3>1, <3>2, <3>3, <3>4 DEF Accurate
      <4>2. \A v \in Seconds : v > Window(state') => granted'[v] = 0
        BY <3>1, <3>2, <3>3, LimiterAssumption DEF Accurate
      <4>3. QED
        BY <3>3, <3>4, <4>1, <4>2 DEF Accurate
    <3>7. Entitled'
      BY <3>1 DEF TypeOK, Entitled
    <3>8. DenialJustified'
      <4>1. ASSUME NEW u \in Threads, pc'[u] = "denied"
            PROVE  \/ Window(state') > second[u]
                   \/ granted'[second[u]] = maxValueEventsPerSecond
        <5>1. pc[u] = "denied" /\ second[u] \in Seconds /\ second[u] \in Nat
          BY <3>1, <4>1, LimiterAssumption DEF TypeOK
        <5>2. CASE Window(state) > second[u]
          BY <3>2, <3>3, <5>1, <5>2
        <5>3. CASE granted[second[u]] = maxValueEventsPerSecond /\ second[u] # w
          BY <3>1, <3>2, <5>1, <5>3
        <5>4. CASE granted[second[u]] = maxValueEventsPerSecond /\ second[u] = w
          BY <3>2, <5>4, LimiterAssumption DEF Accurate, Exhausted
        <5>5. QED
          BY <5>1, <5>2, <5>3, <5>4 DEF DenialJustified
      <4>2. QED
        BY <3>1, <4>1 DEF DenialJustified
    <3>9. QED
      BY <3>5, <3>6, <3>7, <3>8
  <2>3. QED
    BY <2>1, <2>2
<1>5. CASE UNCHANGED vars
  BY <1>5 DEF vars, TypeOK, Accurate, Entitled, DenialJustified
<1>6. QED
  BY <1>1, <1>2, <1>3, <1>4, <1>5 DEF Next

LEMMA LimiterInvariant == Spec => []LimiterInv
  BY LimiterInit, LimiterStep, PTL DEF Spec

-----------------------------------------------------------------------------
(* Theorems                                                                *)

\* The packed word stays well formed: the count never carries into the window.
THEOREM LimiterTypeCorrect == Spec => []TypeOK
<1>1. LimiterInv => TypeOK
  BY DEF LimiterInv
<1>2. QED
  BY <1>1, LimiterInvariant, PTL

\* The limiter lets at most its limit of samples of any second through, for any
\* number of goroutines and whatever the wall clock does.
THEOREM LimiterAtMostPerSecond == Spec => []AtMostPerSecond
<1>1. LimiterInv => AtMostPerSecond
  BY DEF LimiterInv, Accurate, AtMostPerSecond
<1>2. QED
  BY <1>1, LimiterInvariant, PTL

\* It turns a sample away only when it must.
THEOREM LimiterDenialJustified == Spec => []DenialJustified
<1>1. LimiterInv => DenialJustified
  BY DEF LimiterInv
<1>2. QED
  BY <1>1, LimiterInvariant, PTL

\* The window it counts never moves back.
THEOREM LimiterWindowAdvances == Spec => WindowAdvances
<1>1. LimiterInv /\ [Next]_vars => [Window(state') >= Window(state)]_vars
  <2> SUFFICES ASSUME LimiterInv, [Next]_vars
               PROVE  Window(state') >= Window(state)
    OBVIOUS
  <2>1. state \in Nat /\ Window(state) \in Nat
    BY WordParts DEF LimiterInv, TypeOK
  <2>2. CASE state' = state
    BY <2>1, <2>2
  <2>3. ASSUME NEW t \in Threads, CompareAndSwap(t), Current(t)
        PROVE  Window(state') >= Window(state)
    <3>1. /\ state' = Swapped(state, second[t])
          /\ second[t] \in Nat
          /\ Window(state) <= second[t]
          /\ Window(state) = second[t] => ~Exhausted(state)
      BY <2>3, LimiterAssumption
         DEF CompareAndSwap, Current, LimiterInv, TypeOK, Entitled
    <3>2. QED
      BY <2>1, <3>1, SwappedParts
  <2>4. QED
    BY <2>2, <2>3 DEF Next, Clock, Enter, Load, CompareAndSwap, vars
<1>2. QED
  BY <1>1, LimiterInvariant, PTL DEF Spec, WindowAdvances

=============================================================================
