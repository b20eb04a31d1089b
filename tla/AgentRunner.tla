---------------------------- MODULE AgentRunner ----------------------------
(***************************************************************************)
(* The host metrics agent: internal/agent/runner.go, driven by             *)
(* cmd/statok-hostmetrics/main.go.  The main goroutine probes for          *)
(* integrations, starts a goroutine per collector, waits for the signal    *)
(* and for the goroutines, closes the collectors and then the default      *)
(* client.  A collector collects once at the start and on every tick, each *)
(* time with a deadline and holding one of MaxConcurrency slots.           *)
(*                                                                         *)
(* What the configuration says, what a probe finds, what a collection does *)
(* and whether it fails or panics is left open; HostAgent composes this    *)
(* module with the ones that say so.                                       *)
(***************************************************************************)
EXTENDS Naturals, Sequences, FiniteSets

CONSTANTS
  Core,             \* the collectors of CoreCollectors
  Probes,           \* the integrations, each of which may become a collector
  Closable,         \* those of them that implement CollectorCloser
  Slow,             \* those whose collection may last until its deadline: they
                    \* ask another process, the others read files of the kernel
  MaxConcurrency

Collectors == Core \cup Probes

ASSUME RunnerAssumption ==
  /\ Core \cap Probes = {}
  /\ Closable \subseteq Collectors
  /\ MaxConcurrency \in Nat \ {0}

\* The code has three integrations and four slots.
ASSUME SlotsForSlow ==
  Slow \subseteq Probes /\ Cardinality(Slow) < MaxConcurrency

VARIABLES
  main,         \* the main goroutine: "config", "probe", "run", "close",
                \* "flush", "exit"
  unprobed,     \* probes still to be tried
  enabled,      \* the collectors that run
  cancelled,    \* the signal has come and the context of Run is done
  pc,           \* collector -> "off", "start", "select", "wait", "collect",
                \* "returned"
  ticker,       \* collector -> "none", "idle", or "fired": its channel holds 1
  sem,          \* slots taken
  waiters,      \* collectors blocked on a slot, in the order of Go's channel
  open,         \* collectors still to be closed by closeCollectors
  client        \* the default client: "none", "open", "closed" or "abandoned"

vars == <<main, unprobed, enabled, cancelled, pc, ticker, sem, waiters,
          open, client>>

Elements(s) == {s[i] : i \in 1..Len(s)}

Init ==
  /\ main = "config"
  /\ unprobed = {}
  /\ enabled = Core
  /\ cancelled = FALSE
  /\ pc = [c \in Collectors |-> "off"]
  /\ ticker = [c \in Collectors |-> "none"]
  /\ sem = 0
  /\ waiters = <<>>
  /\ open = {}
  /\ client = "none"

\* SIGINT or SIGTERM, once main has asked to be notified.
Signal ==
  /\ ~cancelled
  /\ main # "config"
  /\ cancelled' = TRUE
  /\ UNCHANGED <<main, unprobed, enabled, pc, ticker, sem, waiters,
                 open, client>>

-----------------------------------------------------------------------------
(* Run and main                                                            *)

\* The configuration is read and the default client made; the probes in ps are
\* the ones it asks for.
Configure(ps) ==
  /\ main = "config"
  /\ main' = "probe"
  /\ unprobed' = ps
  /\ client' = "open"
  /\ UNCHANGED <<enabled, cancelled, pc, ticker, sem, waiters, open>>

\* log.Fatal
Refuse ==
  /\ main = "config"
  /\ main' = "exit"
  /\ UNCHANGED <<unprobed, enabled, cancelled, pc, ticker, sem, waiters, open,
                 client>>

\* detectOnce and newFromProbe: a probe that does not detect, panics, or builds
\* no collector is left out.
Probe(p, detected) ==
  /\ main = "probe"
  /\ p \in unprobed
  /\ unprobed' = unprobed \ {p}
  /\ enabled' = IF detected THEN enabled \cup {p} ELSE enabled
  /\ UNCHANGED <<main, cancelled, pc, ticker, sem, waiters, open,
                 client>>

\* run starts the goroutines, also when the signal has come during the probes.
Start ==
  /\ main = "probe"
  /\ unprobed = {}
  /\ main' = "run"
  /\ pc' = [c \in Collectors |-> IF c \in enabled THEN "start" ELSE "off"]
  /\ UNCHANGED <<unprobed, enabled, cancelled, ticker, sem, waiters,
                 open, client>>

\* Mutant: the collectors are closed as soon as the signal comes.
WaitAll_NoWait ==
  /\ main = "run"
  /\ cancelled
  /\ main' = "close"
  /\ open' = enabled \cap Closable
  /\ UNCHANGED <<unprobed, enabled, cancelled, pc, ticker, sem,
                 waiters, client>>

\* <-ctx.Done() and wg.Wait()
WaitAll ==
  /\ main = "run"
  /\ cancelled
  /\ \A c \in enabled : pc[c] = "returned"
  /\ main' = "close"
  /\ open' = enabled \cap Closable
  /\ UNCHANGED <<unprobed, enabled, cancelled, pc, ticker, sem,
                 waiters, client>>

\* One round of closeCollectors; an error or a panic of Close is only logged.
CloseCollector(c) ==
  /\ main = "close"
  /\ c \in open
  /\ open' = open \ {c}
  /\ UNCHANGED <<main, unprobed, enabled, cancelled, pc, ticker, sem,
                 waiters, client>>

\* Run returns.
Stopped ==
  /\ main = "close"
  /\ open = {}
  /\ main' = "flush"
  /\ UNCHANGED <<unprobed, enabled, cancelled, pc, ticker, sem,
                 waiters, open, client>>

\* Client.Close with a deadline of 2 s: the worker ends in time or not.
flushAndClose ==
  /\ main = "flush"
  /\ main' = "exit"
  /\ client' \in {"closed", "abandoned"}
  /\ UNCHANGED <<unprobed, enabled, cancelled, pc, ticker, sem,
                 waiters, open>>

MainStep ==
  \/ \E ps \in SUBSET Probes : Configure(ps)
  \/ \E p \in Probes, detected \in BOOLEAN : Probe(p, detected)
  \/ Refuse \/ Start \/ WaitAll \/ Stopped \/ flushAndClose
  \/ \E c \in Collectors : CloseCollector(c)

-----------------------------------------------------------------------------
(* runCollector and collectOnce                                            *)

\* c reaches the select of collectOnce.  A free slot is taken at once, unless
\* the context is done too: then the select may take either.  Otherwise c waits.
collectOnce(c) ==
  \/ /\ sem < MaxConcurrency
     /\ sem' = sem + 1
     /\ pc' = [pc EXCEPT ![c] = "collect"]
     /\ UNCHANGED waiters
  \/ /\ sem >= MaxConcurrency
     /\ waiters' = Append(waiters, c)
     /\ pc' = [pc EXCEPT ![c] = "wait"]
     /\ UNCHANGED sem
  \/ /\ sem < MaxConcurrency
     /\ cancelled
     /\ pc' = [pc EXCEPT ![c] = "select"]
     /\ UNCHANGED <<sem, waiters>>

\* The collection at the start; a context that is done already skips it.
Begin(c) ==
  /\ pc[c] = "start"
  /\ IF cancelled THEN /\ pc' = [pc EXCEPT ![c] = "select"]
                       /\ ticker' = [ticker EXCEPT ![c] = "idle"]
                       /\ UNCHANGED <<sem, waiters>>
                  ELSE collectOnce(c) /\ UNCHANGED ticker
  /\ UNCHANGED <<main, unprobed, enabled, cancelled, open, client>>

\* The collection is over: the ticker is created after the first one.
Return(c, handed) ==
  /\ ticker' = [ticker EXCEPT ![c] = IF @ = "none" THEN "idle" ELSE @]
  /\ pc' = [d \in Collectors |-> IF d = c THEN "select"
                                 ELSE IF d \in handed THEN "collect" ELSE pc[d]]

\* Mutant: a collection that panics keeps its slot.
Finish_PanicKeepsSlot(c) ==
  /\ pc[c] = "collect"
  /\ \/ IF waiters = <<>>
          THEN sem' = sem - 1 /\ UNCHANGED waiters /\ Return(c, {})
          ELSE waiters' = Tail(waiters) /\ UNCHANGED sem
               /\ Return(c, {Head(waiters)})
     \/ UNCHANGED <<sem, waiters>> /\ Return(c, {})
  /\ UNCHANGED <<main, unprobed, enabled, cancelled, open, client>>

\* Mutant: a panic ends the collector's goroutine, its slot freed on the way.
Finish_PanicEndsLoop(c) ==
  /\ pc[c] = "collect"
  /\ \/ IF waiters = <<>>
          THEN sem' = sem - 1 /\ UNCHANGED waiters /\ Return(c, {})
          ELSE waiters' = Tail(waiters) /\ UNCHANGED sem
               /\ Return(c, {Head(waiters)})
     \/ /\ waiters = <<>>
        /\ sem' = sem - 1
        /\ pc' = [pc EXCEPT ![c] = "returned"]
              /\ UNCHANGED <<waiters, ticker>>
  /\ UNCHANGED <<main, unprobed, enabled, cancelled, open, client>>

\* safeCollect returns: nil, an error or a panic made into one.  The deferred
\* receive frees the slot, which goes to the collector that has waited longest.
Finish(c) ==
  /\ pc[c] = "collect"
  /\ IF waiters = <<>>
       THEN sem' = sem - 1 /\ UNCHANGED waiters /\ Return(c, {})
       ELSE waiters' = Tail(waiters) /\ UNCHANGED sem
            /\ Return(c, {Head(waiters)})
  /\ UNCHANGED <<main, unprobed, enabled, cancelled, open, client>>

\* The waiting senders of a channel without the i-th
Without(s, i) == [k \in 1..(Len(s) - 1) |-> IF k < i THEN s[k] ELSE s[k + 1]]

\* The wait for a slot ends with the context, because of the signal or because
\* CollectTimeout, counted from collectOnce, has passed: nothing is collected this
\* time.  For a collection in progress the deadline is one more way to fail.
Skip(c) ==
  /\ pc[c] = "wait"
  /\ \E i \in 1..Len(waiters) :
       waiters[i] = c /\ waiters' = Without(waiters, i)
  /\ Return(c, {})
  /\ UNCHANGED <<main, unprobed, enabled, cancelled, sem, open, client>>

\* The loop of runCollector takes a tick, also one that competes with ctx.Done.
Tick(c) ==
  /\ pc[c] = "select"
  /\ ticker[c] = "fired"
  /\ ticker' = [ticker EXCEPT ![c] = "idle"]
  /\ collectOnce(c)
  /\ UNCHANGED <<main, unprobed, enabled, cancelled, open, client>>

\* Mutant: the loop does not look at the context.
Leave_Never(c) ==
  /\ pc[c] = "select"
  /\ cancelled
  /\ UNCHANGED vars

\* ... or sees the context done and returns.
Leave(c) ==
  /\ pc[c] = "select"
  /\ cancelled
  /\ pc' = [pc EXCEPT ![c] = "returned"]
  /\ UNCHANGED <<main, unprobed, enabled, cancelled, ticker, sem,
                 waiters, open, client>>

-----------------------------------------------------------------------------
(* Time                                                                    *)

\* The ticker fires; a tick nobody has taken yet is not doubled.
Fire(c) ==
  /\ ticker[c] = "idle"
  /\ pc[c] # "returned"
  /\ ticker' = [ticker EXCEPT ![c] = "fired"]
  /\ UNCHANGED <<main, unprobed, enabled, cancelled, pc, sem, waiters,
                 open, client>>

Exited == main = "exit" /\ UNCHANGED vars

Next ==
  \/ Signal \/ MainStep \/ Exited
  \/ \E c \in Collectors :
       Begin(c) \/ Finish(c) \/ Skip(c) \/ Tick(c) \/ Leave(c) \/ Fire(c)

Spec == Init /\ [][Next]_vars

-----------------------------------------------------------------------------
(* Properties                                                              *)

Collecting == {c \in Collectors : pc[c] = "collect"}

\* Type correctness of the runner.
TypeOK ==
  /\ main \in {"config", "probe", "run", "close", "flush", "exit"}
  /\ unprobed \subseteq Probes /\ enabled \subseteq Collectors
  /\ cancelled \in BOOLEAN
  /\ pc \in [Collectors ->
               {"off", "start", "select", "wait", "collect", "returned"}]
  /\ ticker \in [Collectors -> {"none", "idle", "fired"}]
  /\ sem \in 0..MaxConcurrency
  /\ waiters \in Seq(Collectors)
  /\ open \subseteq Closable
  /\ client \in {"none", "open", "closed", "abandoned"}

\* No slot is lost: whatever collections fail, panic, time out or are cancelled,
\* every taken slot belongs to a collection in progress, and a collector waits
\* only while all slots are in use (runner.go:120-125).
SlotsAccounted ==
  /\ TypeOK
  /\ sem = Cardinality(Collecting)
  /\ sem <= MaxConcurrency
  /\ waiters # <<>> => sem = MaxConcurrency
  /\ Elements(waiters) = {c \in Collectors : pc[c] = "wait"}

\* Nothing is collected while or after collectors are closed, and thus nothing
\* is recorded once the default client closes (runner.go:87-89, main.go:92-93).
QuietBeforeClose ==
  main \in {"close", "flush", "exit"} =>
    \A c \in Collectors : pc[c] \in {"off", "returned"}

\* The agent stops after the signal, whenever it comes: during the probes, while
\* collectors wait for a slot, or with a tick pending (runner.go:87-113).
ShutdownCompletes == cancelled ~> main = "exit"

\* While a collection that is not slow is in progress no deadline passes: a wait
\* ends without a slot because of the signal, or when slow ones hold all slots.
QuickAreQuick ==
  [][\A c \in Collectors :
       pc[c] = "wait" /\ pc'[c] = "select" => cancelled \/ Collecting \subseteq Slow]_vars

\* Collectors do not starve each other, though they are more than there are slots:
\* as long as the quick ones are quick from some time on, a collector that fails,
\* panics or hangs to its deadline keeps none from collecting again and again
\* until the signal (runner.go:92-147, settings.go:6-7).
KeepsCollecting ==
  <>QuickAreQuick
    => \A c \in Collectors :
         [](main = "run" /\ c \in enabled => <>(pc[c] = "collect" \/ cancelled))

=============================================================================
