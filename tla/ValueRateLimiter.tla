-------------------------- MODULE ValueRateLimiter --------------------------
(***************************************************************************)
(* The lock-free limiter of value samples (value_rate_limiter.go), which   *)
(* Value and ValueSparse consult before anything else (client.go:187-211). *)
(* One 64-bit word holds the second it is counting and, in its low 16 bits,*)
(* how many samples it has let through in that second.  Goroutines read    *)
(* the wall clock, load the word and compare-and-swap it; any of them may  *)
(* be overtaken between those steps, and the wall clock may be set back.   *)
(***************************************************************************)
EXTENDS Naturals

CONSTANTS
  Threads,                  \* goroutines that call Value or ValueSparse
  Seconds,                  \* what time.Now().Unix() may return
  maxValueEventsPerSecond

\* 1<<rateLimitCounterBits - 1
rateLimitCounterMask == 65535

ASSUME LimiterAssumption ==
  /\ Seconds \subseteq Nat
  /\ maxValueEventsPerSecond \in 1..rateLimitCounterMask

VARIABLES
  state,     \* atomic.Uint64
  now,       \* the wall clock
  pc,        \* thread -> "idle", "load", "cas", "granted" or "denied"
  second,    \* thread -> the second it read from the clock
  seen,      \* thread -> the word it loaded
  granted    \* second -> samples let through for it, for the properties only

vars == <<state, now, pc, second, seen, granted>>

\* window<<rateLimitCounterBits | count
Pack(w, c) == w * (rateLimitCounterMask + 1) + c

\* state >> rateLimitCounterBits and state & rateLimitCounterMask
Window(s) == s \div (rateLimitCounterMask + 1)
Count(s) == s % (rateLimitCounterMask + 1)

Init ==
  /\ state = 0
  /\ now \in Seconds
  /\ pc = [t \in Threads |-> "idle"]
  /\ second = [t \in Threads |-> now]
  /\ seen = [t \in Threads |-> 0]
  /\ granted = [w \in Seconds |-> 0]

\* Time passes, or the wall clock is set.
Clock ==
  /\ now' \in Seconds
  /\ UNCHANGED <<state, pc, second, seen, granted>>

\* allow: read the clock and enter the loop.
Enter(t) ==
  /\ pc[t] \in {"idle", "granted", "denied"}
  /\ pc' = [pc EXCEPT ![t] = "load"]
  /\ second' = [second EXCEPT ![t] = now]
  /\ UNCHANGED <<state, now, seen, granted>>

\* Mutant: the comparison admits one sample more.
Exhausted_OffByOne(s) == Count(s) > maxValueEventsPerSecond

Exhausted(s) == Count(s) >= maxValueEventsPerSecond

\* The word counts a later second already.
Overtaken(s, w) == Window(s) > w

\* Load the word; give up when a later second is being counted, or when this one
\* is used up.
Load(t) ==
  /\ pc[t] = "load"
  /\ seen' = [seen EXCEPT ![t] = state]
  /\ pc' = [pc EXCEPT ![t] =
       IF \/ Overtaken(state, second[t])
          \/ Window(state) = second[t] /\ Exhausted(state)
         THEN "denied" ELSE "cas"]
  /\ UNCHANGED <<state, now, second, granted>>

\* Mutant: the word is stored whatever another goroutine did to it.
Current_Unchecked(t) == TRUE

\* Nobody changed the word since this goroutine loaded it.
Current(t) == state = seen[t]

\* Mutant: a new window keeps the old window's count.
Swapped_Eager(s, w) ==
  IF Window(s) = w THEN s + 1 ELSE Pack(w, Count(s) + 1)

\* The word after the sample is counted, in the same window or in a new one.
Swapped(s, w) == IF Window(s) = w THEN s + 1 ELSE Pack(w, 1)

\* Mutant: a failed swap is repeated with the word it had loaded.
CompareAndSwap_NoReload(t) ==
  /\ pc[t] = "cas"
  /\ Current(t)
  /\ state' = Swapped(seen[t], second[t])
  /\ granted' = [granted EXCEPT ![second[t]] = @ + 1]
  /\ pc' = [pc EXCEPT ![t] = "granted"]
  /\ UNCHANGED <<now, second, seen>>

\* CompareAndSwap: count the sample, or go round the loop.
CompareAndSwap(t) ==
  /\ pc[t] = "cas"
  /\ \/ /\ Current(t)
        /\ state' = Swapped(seen[t], second[t])
        /\ granted' = [granted EXCEPT ![second[t]] = @ + 1]
        /\ pc' = [pc EXCEPT ![t] = "granted"]
     \/ /\ ~Current(t)
        /\ pc' = [pc EXCEPT ![t] = "load"]
        /\ UNCHANGED <<state, granted>>
  /\ UNCHANGED <<now, second, seen>>

Next ==
  \/ Clock
  \/ \E t \in Threads : Enter(t) \/ Load(t) \/ CompareAndSwap(t)

Spec == Init /\ [][Next]_vars

\* A goroutine inside allowAt is not descheduled for ever; nobody has to call it.
FairSpec ==
  Spec /\ \A t \in Threads : WF_vars(Load(t) \/ CompareAndSwap(t))

-----------------------------------------------------------------------------
\* Type correctness of the limiter's word, whose counter never carries into the
\* window above it, and of its callers' locals.
TypeOK ==
  /\ state \in Nat
  /\ Count(state) <= maxValueEventsPerSecond
  /\ now \in Seconds
  /\ pc \in [Threads -> {"idle", "load", "cas", "granted", "denied"}]
  /\ second \in [Threads -> Seconds]
  /\ seen \in [Threads -> Nat]
  /\ granted \in [Seconds -> Nat]

\* The promise of the limiter: no interleaving of callers, and no clock that is
\* set back, lets more than maxValueEventsPerSecond samples of one second
\* through, and the count never carries into the window beside it
\* (value_rate_limiter.go:23-45).
AtMostPerSecond ==
  /\ TypeOK
  /\ \A w \in Seconds : granted[w] <= maxValueEventsPerSecond

\* The limiter does not starve callers: a sample is turned away only when its
\* second has been overtaken by a later one or has really let its full number
\* through, never because of a lost race (value_rate_limiter.go:28-45).
DenialJustified ==
  \A t \in Threads :
    pc[t] = "denied" => \/ Window(state) > second[t]
                        \/ granted[second[t]] = maxValueEventsPerSecond

\* The window never moves back, although the clock may: otherwise a second could
\* be counted twice (value_rate_limiter.go:28).
WindowAdvances == [][Window(state') >= Window(state)]_vars

\* Every call returns: a compare-and-swap fails only because another one
\* succeeded, and those are bounded by the samples of a second
\* (value_rate_limiter.go:25).
CallReturns ==
  \A t \in Threads : pc[t] = "load" ~> pc[t] \in {"granted", "denied"}

=============================================================================
