--------------------------- MODULE DefaultClient ---------------------------
(***************************************************************************)
(* The package-level client (client.go:99-161): Init installs a client and *)
(* closes the one it replaces under the write lock of defaultMu; Count,    *)
(* Value and the other helpers read the client under the read lock and     *)
(* then use it; statok-hostmetrics closes it with a deadline when it       *)
(* stops (cmd/statok-hostmetrics/main.go:114-120).                         *)
(*                                                                         *)
(* Client is the detailed model of a client.  Here one is only a worker    *)
(* that runs until Close cancels it and is done some time later, and a     *)
(* sync.Once, which is what ClientLife says of both.  The client of the    *)
(* call of Init by goroutine i is called i.                                *)
(***************************************************************************)
EXTENDS Naturals, FiniteSets

CONSTANTS
  Initers,     \* goroutines that call Init, once each
  Callers,     \* goroutines that call Count and the like
  Closers,     \* goroutines that close the default client with a deadline
  MaxCalls,    \* bound: calls of the helpers in all
  None         \* no client, no goroutine

ASSUME DefaultAssumption ==
  /\ Initers \cap Callers = {} /\ Initers \cap Closers = {}
  /\ Callers \cap Closers = {}
  /\ {None, "new", "used"} \cap (Initers \cup Callers \cup Closers) = {}
  /\ MaxCalls \in Nat

Readers == Callers \cup Closers

VARIABLES
  default,     \* defaultClient
  writer,      \* who has, or waits alone for, the write lock of defaultMu
  readers,     \* who has its read lock
  pc,          \* of every goroutine
  client,      \* the client a goroutine has read from defaultClient
  worker,      \* client -> "none", "running", "closing", "done"
  once,        \* client -> "new", the goroutine inside once.Do, "used"
  calls,       \* how many calls of the helpers there have been
  \* history, for the properties only
  abandoned    \* clients whose Close gave up at its deadline

vars == <<default, writer, readers, pc, client, worker, once, calls, abandoned>>

Goroutines == Initers \cup Readers

Init ==
  /\ default = None
  /\ writer = None
  /\ readers = {}
  /\ pc = [g \in Goroutines |-> "idle"]
  /\ client = [g \in Goroutines |-> None]
  /\ worker = [c \in Initers |-> "none"]
  /\ once = [c \in Initers |-> "new"]
  /\ calls = 0
  /\ abandoned = {}

Goto(g, label) == pc' = [pc EXCEPT ![g] = label]

-----------------------------------------------------------------------------
(* Close, by whoever calls it: see Client for the worker's side            *)

\* once.Do: the first caller cancels the worker and waits for it; whoever comes
\* while it waits waits for the first.
CloseEnter(g) ==
  /\ pc[g] = "close"
  /\ once[client[g]] = "new"
  /\ once' = [once EXCEPT ![client[g]] = g]
  /\ worker' = [worker EXCEPT ![client[g]] = "closing"]
  /\ Goto(g, "wait")
  /\ UNCHANGED <<default, writer, readers, client, calls, abandoned>>

\* Mutant: a later Close tries again and again to be the one that closes.
CloseSkip_Spins(g, next) ==
  /\ pc[g] = "close"
  /\ once[client[g]] = "used"
  /\ UNCHANGED vars

\* once.Do has been used before: nothing to wait for.
CloseSkip(g, next) ==
  /\ pc[g] = "close"
  /\ once[client[g]] = "used"
  /\ Goto(g, next)
  /\ UNCHANGED <<default, writer, readers, client, worker, once, calls,
                 abandoned>>

\* Mutant: Close returns without waiting for the worker.
CloseReturn_Eager(g, next) ==
  /\ pc[g] = "wait"
  /\ once' = [once EXCEPT ![client[g]] = "used"]
  /\ Goto(g, next)
  /\ UNCHANGED <<default, writer, readers, client, worker, calls, abandoned>>

\* The worker is done.
CloseReturn(g, next) ==
  /\ pc[g] = "wait"
  /\ worker[client[g]] = "done"
  /\ once' = [once EXCEPT ![client[g]] = "used"]
  /\ Goto(g, next)
  /\ UNCHANGED <<default, writer, readers, client, worker, calls, abandoned>>

\* The deadline of flushAndClose; Init closes without one.
CloseAbandon(g) ==
  /\ pc[g] = "wait"
  /\ g \in Closers
  /\ once' = [once EXCEPT ![client[g]] = "used"]
  /\ abandoned' = abandoned \cup {client[g]}
  /\ Goto(g, "end")
  /\ UNCHANGED <<default, writer, readers, client, worker, calls>>

\* The worker has drained its queue and made its last sends.
WorkerDone(c) ==
  /\ worker[c] = "closing"
  /\ worker' = [worker EXCEPT ![c] = "done"]
  /\ UNCHANGED <<default, writer, readers, pc, client, once, calls, abandoned>>

-----------------------------------------------------------------------------
(* Init                                                                    *)

\* NewClient starts the worker, or fails and leaves everything as it is.
InitCall(i) ==
  /\ pc[i] = "idle"
  /\ \/ /\ worker' = [worker EXCEPT ![i] = "running"]
        /\ Goto(i, "lock")
     \/ /\ Goto(i, "end")
        /\ UNCHANGED worker
  /\ UNCHANGED <<default, writer, readers, client, once, calls, abandoned>>

\* RWMutex.Lock, first half: one writer at a time gets here, and from now on
\* readers that come wait for it.
Announce(i) ==
  /\ pc[i] = "lock"
  /\ writer = None
  /\ writer' = i
  /\ Goto(i, "drain")
  /\ UNCHANGED <<default, readers, client, worker, once, calls, abandoned>>

\* Mutant: Init does not close the client it replaces.
Acquire_Forgets(i) ==
  /\ pc[i] = "drain"
  /\ readers = {}
  /\ client' = [client EXCEPT ![i] = default]
  /\ Goto(i, "install")
  /\ UNCHANGED <<default, writer, readers, worker, once, calls, abandoned>>

\* Second half: the readers that were inside have left.  The lock is held from
\* here to Install, through the Close of the client to be replaced.
Acquire(i) ==
  /\ pc[i] = "drain"
  /\ readers = {}
  /\ client' = [client EXCEPT ![i] = default]
  /\ Goto(i, IF default = None THEN "install" ELSE "close")
  /\ UNCHANGED <<default, writer, readers, worker, once, calls, abandoned>>

\* Mutant: Init returns without Unlock.
Install_StaysLocked(i) ==
  /\ pc[i] = "install"
  /\ default' = i
  /\ Goto(i, "end")
  /\ UNCHANGED <<writer, readers, client, worker, once, calls, abandoned>>

\* Store the new client; Unlock lets in the readers that have waited.
Install(i) ==
  /\ pc[i] = "install"
  /\ default' = i
  /\ writer' = None
  /\ readers' = {g \in Readers : pc[g] = "blocked"}
  /\ pc' = [g \in Goroutines |->
              IF g = i THEN "end"
              ELSE IF g \in readers' THEN "reading" ELSE pc[g]]
  /\ UNCHANGED <<client, worker, once, calls, abandoned>>

InitStep(i) ==
  \/ Announce(i) \/ Acquire(i) \/ CloseEnter(i)
  \/ CloseSkip(i, "install") \/ CloseReturn(i, "install") \/ Install(i)

-----------------------------------------------------------------------------
(* The helpers and flushAndClose                                           *)

\* RLock in Default(): blocked while a writer holds the lock or waits for it.
Default(g) ==
  /\ pc[g] = "idle"
  /\ g \in Callers => calls < MaxCalls
  /\ calls' = IF g \in Callers THEN calls + 1 ELSE calls
  /\ readers' = IF writer = None THEN readers \cup {g} ELSE readers
  /\ Goto(g, IF writer = None THEN "reading" ELSE "blocked")
  /\ UNCHANGED <<default, writer, client, worker, once, abandoned>>

\* Read the pointer and RUnlock.
Read(g) ==
  /\ pc[g] = "reading"
  /\ client' = [client EXCEPT ![g] = default]
  /\ readers' = readers \ {g}
  /\ Goto(g, CASE default = None /\ g \in Closers -> "end"
               [] default = None /\ g \notin Closers -> "idle"
               [] default # None /\ g \in Closers -> "close"
               [] default # None /\ g \notin Closers -> "use")
  /\ UNCHANGED <<default, writer, worker, once, calls, abandoned>>

\* c.Count on the client that was read: it never blocks.
Use(g) ==
  /\ pc[g] = "use"
  /\ Goto(g, "idle")
  /\ UNCHANGED <<default, writer, readers, client, worker, once, calls,
                 abandoned>>

ReaderStep(g) ==
  \/ Read(g) \/ Use(g) \/ CloseEnter(g)
  \/ (g \in Closers /\ (CloseSkip(g, "end") \/ CloseReturn(g, "end")))
  \/ CloseAbandon(g)

Ended ==
  /\ calls = MaxCalls
  /\ \A g \in Goroutines : pc[g] = IF g \in Callers THEN "idle" ELSE "end"
  /\ UNCHANGED vars

Next ==
  \/ \E i \in Initers : InitCall(i) \/ InitStep(i)
  \/ \E g \in Readers : Default(g) \/ ReaderStep(g)
  \/ \E c \in Initers : WorkerDone(c)
  \/ Ended

Spec == Init /\ [][Next]_vars

(***************************************************************************)
(* Goroutines that can run do run, and the worker of a cancelled client    *)
(* ends: Client's CloseCompletes.                                          *)
(***************************************************************************)
FairSpec ==
  /\ Spec
  /\ \A i \in Initers : WF_vars(InitStep(i)) /\ WF_vars(WorkerDone(i))
  /\ \A g \in Readers : WF_vars(ReaderStep(g))

-----------------------------------------------------------------------------
(* Properties                                                              *)

\* Type correctness, and the lock: who replaces the client has it alone.
TypeOK ==
  /\ default \in Initers \cup {None}
  /\ writer \in Initers \cup {None}
  /\ readers \subseteq Readers
  /\ pc \in [Goroutines -> {"idle", "lock", "drain", "close", "wait", "install",
                            "blocked", "reading", "use", "end"}]
  /\ client \in [Goroutines -> Initers \cup {None}]
  /\ worker \in [Initers -> {"none", "running", "closing", "done"}]
  /\ once \in [Initers -> {"new", "used"} \cup Initers \cup Closers]
  /\ calls \in 0..MaxCalls
  /\ abandoned \subseteq Initers
  /\ \A i \in Initers :
       pc[i] \in {"close", "wait", "install"} => writer = i /\ readers = {}

\* No worker leaks: however calls of Init overlap, a client whose Init has
\* returned is the default client or has been closed (client.go:112-118).
NoLeakedClient ==
  /\ TypeOK
  /\ \A c \in Initers :
       pc[c] = "end" /\ worker[c] = "running" => default = c

\* A replaced client has made its last sends before its successor can be used,
\* unless a Close with a deadline gave up on it before (client.go:114-117).
HandoverAfterLastSend ==
  \A c \in Initers :
    pc[c] = "end" /\ worker[c] # "none" /\ default # c
      => worker[c] = "done" \/ c \in abandoned

\* Client c as Client has it, see ClientLife
Life(c) ==
  INSTANCE ClientLife WITH
    worker <- worker[c],
    once <- IF once[c] \in {"new", "used"} THEN once[c] ELSE "running",
    gaveUp <- c \in abandoned,
    sent <- {}

\* Whom a goroutine waits for: the writer before it, the readers that are inside,
\* whoever is inside once.Do.
WaitsFor(g) ==
  CASE pc[g] \in {"lock", "blocked"} -> {writer} \ {None}
    [] pc[g] = "drain" -> readers
    [] pc[g] = "close" -> {once[client[g]]} \ {"new", "used"}
    [] OTHER -> {}

\* Locks are taken in one order: defaultMu, then once, then the worker.
Level(label) ==
  CASE label \in {"lock", "blocked"} -> 3
    [] label \in {"drain", "close"} -> 2
    [] label = "wait" -> 1
    [] OTHER -> 0

\* Although Init closes a client under the lock that everyone needs, no waits form
\* a circle: every wait is for someone further on in that order who is still in
\* its call, the last of them for a worker that was told to end; and nobody is
\* left waiting for a lock that is free (client.go:112-126, 297-312).
NoCircularWait ==
  \A g \in Goroutines :
    /\ pc[g] = "blocked" => writer # None
    /\ pc[g] = "wait" => worker[client[g]] \in {"closing", "done"}
    /\ \A h \in WaitsFor(g) :
         pc[h] \notin {"idle", "end"} /\ Level(pc[h]) < Level(pc[g])

\* Every call of Init and of Close returns, and every helper that waits for the
\* lock goes on (client.go:112-126, 297-312).
AllReturn ==
  /\ \A i \in Initers : pc[i] = "lock" ~> pc[i] = "end"
  /\ \A g \in Readers : pc[g] = "blocked" ~> pc[g] \in {"use", "close"}
  /\ \A g \in Closers : pc[g] = "close" ~> pc[g] = "end"

\* "Count/CountUnique/Total/Value never block" (README.md:60): no helper waits
\* while Init waits for the sends of the worker of the client it replaces.
HelpersNeverBlock ==
  \A g \in Callers :
    pc[g] = "blocked" =>
      ~\E i \in Initers : pc[i] = "wait" /\ worker[client[i]] = "closing"

=============================================================================
