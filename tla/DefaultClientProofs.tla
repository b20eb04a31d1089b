------------------------- MODULE DefaultClientProofs -------------------------
(***************************************************************************)
(* Proofs about the default client (DefaultClient.tla) for every number of *)
(* goroutines that install, use and close it.                              *)
(***************************************************************************)
EXTENDS DefaultClient, TLAPS

-----------------------------------------------------------------------------
(* The inductive invariant                                                 *)

\* Where a goroutine of each kind can be, and who has the lock.
LockInv ==
  /\ \A i \in Initers :
       pc[i] \in {"idle", "lock", "drain", "close", "wait", "install", "end"}
  /\ \A g \in Readers :
       pc[g] \in {"idle", "blocked", "reading", "use", "close", "wait", "end"}
  /\ \A g \in Callers : pc[g] \notin {"close", "wait"}
  /\ \A i \in Initers :
       writer = i <=> pc[i] \in {"drain", "close", "wait", "install"}
  /\ \A g \in Readers : g \in readers <=> pc[g] = "reading"

\* A client that a call of Init has made and installed, since replaced or not
Installed(c) == pc[c] = "end" /\ worker[c] # "none"

\* Only installed clients are reached; the one that Init closes stays the default
\* client until Init installs its own.
RefInv ==
  /\ default # None => Installed(default)
  /\ \A g \in Goroutines : client[g] # None => Installed(client[g])
  /\ \A g \in Goroutines : pc[g] \in {"close", "wait"} => client[g] # None
  /\ \A i \in Initers :
       pc[i] \in {"close", "wait", "install"} => client[i] = default

\* once.Do and the worker: nobody closes a client before it is installed, the
\* first Close cancels the worker, and once is used when the worker is done or
\* its Close has given up.
OnceInv ==
  /\ \A c \in Initers :
       /\ pc[c] = "idle" => worker[c] = "none"
       /\ pc[c] \in {"lock", "drain", "close", "wait", "install"}
            => worker[c] = "running"
       /\ pc[c] # "end" => once[c] = "new"
       /\ once[c] = "new" => worker[c] \in {"none", "running"} /\ c \notin abandoned
       /\ once[c] # "new" => worker[c] \in {"closing", "done"}
       /\ once[c] = "used" => worker[c] = "done" \/ c \in abandoned
  /\ \A g \in Goroutines : pc[g] = "wait" => once[client[g]] = g

\* Init installs its client when the one it replaces is closed.
ReplaceInv ==
  \A i \in Initers :
    pc[i] = "install" /\ client[i] # None
      => worker[client[i]] = "done" \/ client[i] \in abandoned

Inv == TypeOK /\ LockInv /\ RefInv /\ OnceInv /\ ReplaceInv /\ HandoverAfterLastSend


-----------------------------------------------------------------------------
(* Close                                                                   *)

\* Kinds of goroutines do not overlap, and their names are no states of once.
LEMMA Kinds ==
  /\ \A g \in Goroutines : g # None /\ g # "new" /\ g # "used"
  /\ Initers \cap Readers = {} /\ Callers \cap Closers = {}
  /\ Initers \subseteq Goroutines /\ Readers \subseteq Goroutines
  /\ Callers \subseteq Readers /\ Closers \subseteq Readers
  /\ Goroutines = Initers \cup Callers \cup Closers
BY DefaultAssumption DEF Goroutines, Readers

\* Whoever is inside Close has read an installed client.
LEMMA ClosingClient ==
  ASSUME Inv, NEW g \in Goroutines, pc[g] \in {"close", "wait"}
  PROVE  /\ client[g] \in Initers /\ client[g] # g
         /\ pc[client[g]] = "end" /\ worker[client[g]] # "none"
         /\ g \in Initers \cup Closers
<1>1. client[g] # None /\ client[g] \in Initers \cup {None}
  BY DEF Inv, RefInv, TypeOK
<1>2. Installed(client[g])
  BY <1>1 DEF Inv, RefInv
<1>3. g \notin Callers
  BY DEF Inv, LockInv
<1>4. QED
  BY <1>1, <1>2, <1>3, Kinds DEF Installed

LEMMA CloseEnterKeeps ==
  ASSUME Inv, NEW g \in Goroutines, CloseEnter(g)
  PROVE  Inv'
<1> DEFINE c == client[g]
<1>1. /\ c \in Initers /\ c # g /\ pc[c] = "end" /\ worker[c] # "none"
      /\ g \in Initers \cup Closers
  BY ClosingClient DEF CloseEnter
<1>2. /\ pc[g] = "close" /\ once[c] = "new"
      /\ once' = [once EXCEPT ![c] = g]
      /\ worker' = [worker EXCEPT ![c] = "closing"]
      /\ pc' = [pc EXCEPT ![g] = "wait"]
      /\ UNCHANGED <<default, writer, readers, client, calls, abandoned>>
  BY DEF CloseEnter, Goto
<1> HIDE DEF c
<1>3. TypeOK'
  BY <1>1, <1>2 DEF Inv, TypeOK
<1>4. LockInv'
  BY <1>2, Kinds DEF Inv, TypeOK, LockInv
<1>5. RefInv'
  BY <1>1, <1>2, Kinds DEF Inv, TypeOK, RefInv, Installed
<1>6. OnceInv'
  <2>1. ASSUME NEW h \in Goroutines, pc'[h] = "wait" PROVE once'[client'[h]] = h
    <3>1. CASE h = g
      BY <1>1, <1>2, <3>1 DEF Inv, TypeOK, c
    <3>2. CASE h # g
      <4>1. pc[h] = "wait" /\ once[client[h]] = h /\ client[h] \in Initers
        BY <1>2, <2>1, <3>2, ClosingClient DEF Inv, TypeOK, OnceInv
      <4>2. QED
        BY <1>1, <1>2, <4>1, Kinds DEF Inv, TypeOK
    <3>3. QED
      BY <3>1, <3>2
  <2>2. ASSUME NEW d \in Initers
        PROVE  /\ pc'[d] = "idle" => worker'[d] = "none"
               /\ pc'[d] \in {"lock", "drain", "close", "wait", "install"}
                    => worker'[d] = "running"
               /\ pc'[d] # "end" => once'[d] = "new"
               /\ once'[d] = "new" => /\ worker'[d] \in {"none", "running"}
                                      /\ d \notin abandoned'
               /\ once'[d] # "new" => worker'[d] \in {"closing", "done"}
               /\ once'[d] = "used" => worker'[d] = "done" \/ d \in abandoned'
    <3>1. CASE d = c
      <4>1. pc'[d] = "end" /\ once'[d] = g /\ worker'[d] = "closing"
        BY <1>1, <1>2, <3>1 DEF Inv, TypeOK
      <4>2. QED
        BY <4>1, Kinds
    <3>2. CASE d # c
      BY <1>1, <1>2, <3>2 DEF Inv, TypeOK, OnceInv
    <3>3. QED
      BY <3>1, <3>2
  <2>3. QED
    BY <2>1, <2>2 DEF OnceInv
<1>7. ReplaceInv'
  <2> SUFFICES ASSUME NEW i \in Initers, pc'[i] = "install", client[i] # None
               PROVE  worker'[client[i]] = "done" \/ client[i] \in abandoned
    BY <1>2 DEF ReplaceInv
  <2>1. pc[i] = "install" /\ client[i] \in Initers
    BY <1>2, Kinds DEF Inv, TypeOK
  <2>2. worker[client[i]] = "done" \/ client[i] \in abandoned
    BY <2>1 DEF Inv, ReplaceInv
  <2>3. worker[c] = "running"
    BY <1>1, <1>2 DEF Inv, OnceInv
  <2>4. QED
    BY <1>1, <1>2, <2>1, <2>2, <2>3 DEF Inv, TypeOK
<1>8. HandoverAfterLastSend'
  <2> SUFFICES ASSUME NEW d \in Initers, pc'[d] = "end", worker'[d] # "none",
                      default # d
               PROVE  worker'[d] = "done" \/ d \in abandoned
    BY <1>2 DEF HandoverAfterLastSend
  <2>1. pc[d] = "end"
    BY <1>2, Kinds DEF Inv, TypeOK
  <2>2. worker[c] = "running" /\ c \notin abandoned
    BY <1>1, <1>2 DEF Inv, OnceInv
  <2>3. default = c
    BY <1>1, <2>2 DEF Inv, HandoverAfterLastSend
  <2>4. QED
    BY <1>1, <1>2, <2>1, <2>3 DEF Inv, TypeOK, HandoverAfterLastSend
<1>9. QED
  BY <1>3, <1>4, <1>5, <1>6, <1>7, <1>8 DEF Inv

\* once.Do is left, by the one inside or by one that comes later, with the
\* client closed: done, or given up by someone with a deadline.
LEMMA CloseLeave ==
  ASSUME Inv, NEW g \in Goroutines, NEW next \in {"install", "end"},
         pc[g] \in {"close", "wait"},
         pc[g] = "close" => once[client[g]] = "used",
         g \in Initers => next = "install" /\ client[g] \notin abandoned' \ abandoned,
         g \in Closers => next = "end",
         once' = [once EXCEPT ![client[g]] = "used"],
         pc' = [pc EXCEPT ![g] = next],
         abandoned' \in {abandoned, abandoned \cup {client[g]}},
         worker[client[g]] = "done" \/ client[g] \in abandoned',
         UNCHANGED <<default, writer, readers, client, worker, calls>>
  PROVE  Inv'
<1> DEFINE c == client[g]
<1>1. /\ c \in Initers /\ c # g /\ pc[c] = "end" /\ worker[c] # "none"
      /\ g \in Initers \cup Closers
  BY ClosingClient
<1>2. /\ once' = [once EXCEPT ![c] = "used"]
      /\ pc' = [pc EXCEPT ![g] = next]
      /\ abandoned' \in {abandoned, abandoned \cup {c}}
      /\ worker[c] = "done" \/ c \in abandoned'
      /\ UNCHANGED <<default, writer, readers, client, worker, calls>>
  OBVIOUS
<1>3. once[c] # "new" /\ worker[c] \in {"closing", "done"}
  <2>1. once[c] # "new"
    BY Kinds DEF Inv, OnceInv
  <2>2. QED
    BY <1>1, <2>1 DEF Inv, OnceInv
<1>4. abandoned \subseteq abandoned' /\ abandoned' \subseteq Initers
  BY <1>1, <1>2 DEF Inv, TypeOK
<1>5. TypeOK'
  BY <1>1, <1>2, <1>4, Kinds DEF Inv, TypeOK
<1>6. LockInv'
  BY <1>1, <1>2, Kinds DEF Inv, TypeOK, LockInv
<1>7. RefInv'
  BY <1>1, <1>2, Kinds DEF Inv, TypeOK, RefInv, Installed
<1>8. OnceInv'
  <2>1. ASSUME NEW h \in Goroutines, pc'[h] = "wait" PROVE once'[client'[h]] = h
    <3>1. h # g /\ pc[h] = "wait" /\ once[client[h]] = h /\ client[h] \in Initers
      BY <1>2, <2>1, ClosingClient DEF Inv, TypeOK, OnceInv
    <3>2. client[h] # c
      <4>1. pc[g] = "close" => once[c] = "used"
        BY DEF c
      <4>2. pc[g] = "wait" => once[c] = g
        BY DEF Inv, OnceInv
      <4>3. QED
        BY <3>1, <4>1, <4>2, Kinds
    <3>3. QED
      BY <1>1, <1>2, <3>1, <3>2 DEF Inv, TypeOK
  <2>2. ASSUME NEW d \in Initers
        PROVE  /\ pc'[d] = "idle" => worker'[d] = "none"
               /\ pc'[d] \in {"lock", "drain", "close", "wait", "install"}
                    => worker'[d] = "running"
               /\ pc'[d] # "end" => once'[d] = "new"
               /\ once'[d] = "new" => /\ worker'[d] \in {"none", "running"}
                                      /\ d \notin abandoned'
               /\ once'[d] # "new" => worker'[d] \in {"closing", "done"}
               /\ once'[d] = "used" => worker'[d] = "done" \/ d \in abandoned'
    <3>1. CASE d = c
      <4>1. /\ pc'[d] = "end" /\ once'[d] = "used" /\ worker'[d] = worker[c]
            /\ worker[c] \in {"closing", "done"}
            /\ worker[c] = "done" \/ d \in abandoned'
        BY <1>1, <1>2, <1>3, <3>1 DEF Inv, TypeOK
      <4>2. QED
        BY <4>1
    <3>2. CASE d # c
      <4>1. /\ once'[d] = once[d] /\ worker'[d] = worker[d]
            /\ d \in abandoned' <=> d \in abandoned
            /\ pc'[d] = IF d = g THEN next ELSE pc[d]
        BY <1>1, <1>2, <3>2 DEF Inv, TypeOK
      <4>2. d = g => next = "install" /\ pc[d] \in {"close", "wait"}
        OBVIOUS
      <4>3. QED
        BY <4>1, <4>2 DEF Inv, OnceInv
    <3>3. QED
      BY <3>1, <3>2
  <2>3. QED
    BY <2>1, <2>2 DEF OnceInv
<1>9. ReplaceInv'
  <2> SUFFICES ASSUME NEW i \in Initers, pc'[i] = "install", client[i] # None
               PROVE  worker[client[i]] = "done" \/ client[i] \in abandoned'
    BY <1>2 DEF ReplaceInv
  <2>1. CASE i = g
    BY <2>1
  <2>2. CASE i # g
    <3>1. pc[i] = "install"
      BY <1>2, <2>2, Kinds DEF Inv, TypeOK
    <3>2. QED
      BY <1>4, <3>1 DEF Inv, ReplaceInv
  <2>3. QED
    BY <2>1, <2>2
<1>10. HandoverAfterLastSend'
  <2> SUFFICES ASSUME NEW d \in Initers, pc'[d] = "end", worker[d] # "none",
                      default # d
               PROVE  worker[d] = "done" \/ d \in abandoned'
    BY <1>2 DEF HandoverAfterLastSend
  <2>1. pc[d] = "end"
    BY <1>2, Kinds DEF Inv, TypeOK
  <2>2. QED
    BY <1>4, <2>1 DEF Inv, HandoverAfterLastSend
<1>11. QED
  BY <1>5, <1>6, <1>7, <1>8, <1>9, <1>10 DEF Inv

LEMMA CloseSkipKeeps ==
  ASSUME Inv, NEW g \in Goroutines, NEW next \in {"install", "end"},
         g \in Initers => next = "install", g \in Closers => next = "end",
         CloseSkip(g, next)
  PROVE  Inv'
<1>1. client[g] \in Initers /\ pc[g] = "close" /\ once[client[g]] = "used"
  BY ClosingClient DEF CloseSkip
<1>2. once' = [once EXCEPT ![client[g]] = "used"]
  BY <1>1 DEF CloseSkip, Inv, TypeOK
<1>3. worker[client[g]] = "done" \/ client[g] \in abandoned
  BY <1>1 DEF Inv, OnceInv
<1>4. QED
  BY <1>1, <1>2, <1>3, CloseLeave DEF CloseSkip, Goto

LEMMA CloseReturnKeeps ==
  ASSUME Inv, NEW g \in Goroutines, NEW next \in {"install", "end"},
         g \in Initers => next = "install", g \in Closers => next = "end",
         CloseReturn(g, next)
  PROVE  Inv'
BY CloseLeave DEF CloseReturn, Goto

LEMMA CloseAbandonKeeps ==
  ASSUME Inv, NEW g \in Goroutines, CloseAbandon(g)
  PROVE  Inv'
<1>1. g \notin Initers
  BY Kinds DEF CloseAbandon
<1>2. QED
  BY <1>1, CloseLeave DEF CloseAbandon, Goto

LEMMA WorkerDoneKeeps ==
  ASSUME Inv, NEW c \in Initers, WorkerDone(c)
  PROVE  Inv'
<1>1. /\ worker[c] = "closing" /\ worker' = [worker EXCEPT ![c] = "done"]
      /\ UNCHANGED <<default, writer, readers, pc, client, once, calls, abandoned>>
  BY DEF WorkerDone
<1>2. /\ worker \in [Initers -> {"none", "running", "closing", "done"}]
      /\ worker'[c] = "done"
      /\ \A d \in Initers : d # c => worker'[d] = worker[d]
  BY <1>1 DEF Inv, TypeOK
<1>3. TypeOK'
  BY <1>1 DEF Inv, TypeOK
<1>4. LockInv'
  BY <1>1 DEF Inv, LockInv
<1>5. RefInv'
  BY <1>1, <1>2 DEF Inv, TypeOK, RefInv, Installed
<1>6. OnceInv'
  BY <1>1, <1>2 DEF Inv, OnceInv
<1>7. ReplaceInv'
  BY <1>1, <1>2 DEF Inv, TypeOK, ReplaceInv
<1>8. HandoverAfterLastSend'
  BY <1>1, <1>2 DEF Inv, HandoverAfterLastSend
<1>9. QED
  BY <1>3, <1>4, <1>5, <1>6, <1>7, <1>8 DEF Inv


-----------------------------------------------------------------------------
(* Init                                                                    *)

LEMMA InitCallKeeps ==
  ASSUME Inv, NEW i \in Initers, InitCall(i)
  PROVE  Inv'
<1>1. /\ pc[i] = "idle" /\ worker[i] = "none" /\ once[i] = "new"
      /\ UNCHANGED <<default, writer, readers, client, once, calls, abandoned>>
  BY DEF InitCall, Inv, OnceInv
<1>2. \/ /\ worker' = [worker EXCEPT ![i] = "running"]
         /\ pc' = [pc EXCEPT ![i] = "lock"]
      \/ worker' = worker /\ pc' = [pc EXCEPT ![i] = "end"]
  BY DEF InitCall, Goto
<1>3. /\ \A g \in Goroutines : g # i => pc'[g] = pc[g]
      /\ \A c \in Initers : c # i => worker'[c] = worker[c]
      /\ \/ worker'[i] = "running" /\ pc'[i] = "lock"
         \/ worker'[i] = "none" /\ pc'[i] = "end"
  BY <1>1, <1>2, Kinds DEF Inv, TypeOK
<1>4. TypeOK'
  BY <1>1, <1>2, <1>3, Kinds DEF Inv, TypeOK
<1>5. LockInv'
  BY <1>1, <1>3, Kinds DEF Inv, TypeOK, LockInv
<1>6. RefInv'
  BY <1>1, <1>3, Kinds DEF Inv, TypeOK, RefInv, Installed
<1>7. OnceInv'
  BY <1>1, <1>3, Kinds DEF Inv, TypeOK, OnceInv
<1>8. ReplaceInv'
  <2> SUFFICES ASSUME NEW j \in Initers, pc'[j] = "install", client[j] # None
               PROVE  worker'[client[j]] = "done" \/ client[j] \in abandoned
    BY <1>1 DEF ReplaceInv
  <2>1. pc[j] = "install" /\ client[j] \in Initers
    BY <1>1, <1>3, Kinds DEF Inv, TypeOK
  <2>2. client[j] # i
    BY <1>1, <2>1, Kinds DEF Inv, RefInv, Installed
  <2>3. QED
    BY <1>3, <2>1, <2>2 DEF Inv, ReplaceInv
<1>9. HandoverAfterLastSend'
  BY <1>1, <1>3, Kinds DEF Inv, HandoverAfterLastSend
<1>10. QED
  BY <1>4, <1>5, <1>6, <1>7, <1>8, <1>9 DEF Inv

LEMMA AnnounceKeeps ==
  ASSUME Inv, NEW i \in Initers, Announce(i)
  PROVE  Inv'
<1>1. /\ pc[i] = "lock" /\ writer = None /\ writer' = i
      /\ pc' = [pc EXCEPT ![i] = "drain"]
      /\ UNCHANGED <<default, readers, client, worker, once, calls, abandoned>>
  BY DEF Announce, Goto
<1>2. /\ \A g \in Goroutines : g # i => pc'[g] = pc[g]
      /\ pc'[i] = "drain"
  BY <1>1, Kinds DEF Inv, TypeOK
<1>3. \A j \in Initers : pc[j] \notin {"drain", "close", "wait", "install"}
  BY <1>1, Kinds DEF Inv, LockInv
<1>4. TypeOK'
  BY <1>1, <1>2, <1>3, Kinds DEF Inv, TypeOK
<1>5. LockInv'
  BY <1>1, <1>2, <1>3, Kinds DEF Inv, TypeOK, LockInv
<1>6. RefInv'
  BY <1>1, <1>2, Kinds DEF Inv, TypeOK, RefInv, Installed
<1>7. OnceInv'
  BY <1>1, <1>2, Kinds DEF Inv, TypeOK, OnceInv
<1>8. ReplaceInv' /\ HandoverAfterLastSend'
  BY <1>1, <1>2, Kinds DEF Inv, ReplaceInv, HandoverAfterLastSend
<1>9. QED
  BY <1>4, <1>5, <1>6, <1>7, <1>8 DEF Inv

LEMMA AcquireKeeps ==
  ASSUME Inv, NEW i \in Initers, Acquire(i)
  PROVE  Inv'
<1>1. /\ pc[i] = "drain" /\ readers = {} /\ writer = i
      /\ client' = [client EXCEPT ![i] = default]
      /\ pc' = [pc EXCEPT ![i] = IF default = None THEN "install" ELSE "close"]
      /\ UNCHANGED <<default, writer, readers, worker, once, calls, abandoned>>
  BY DEF Acquire, Goto, Inv, LockInv
<1>2. /\ \A g \in Goroutines : g # i => pc'[g] = pc[g] /\ client'[g] = client[g]
      /\ pc'[i] = IF default = None THEN "install" ELSE "close"
      /\ client'[i] = default
  BY <1>1, Kinds DEF Inv, TypeOK
<1>3. TypeOK'
  BY <1>1, <1>2, Kinds DEF Inv, TypeOK
<1>4. LockInv'
  BY <1>1, <1>2, Kinds DEF Inv, TypeOK, LockInv
<1>5. RefInv'
  <2>1. \A c \in Initers : Installed(c) => pc'[c] = "end" /\ worker'[c] # "none"
    BY <1>1, <1>2, Kinds DEF Installed
  <2>2. default # None => pc'[default] = "end" /\ worker'[default] # "none"
    BY <2>1 DEF Inv, TypeOK, RefInv
  <2>3. ASSUME NEW g \in Goroutines, client'[g] # None
        PROVE  pc'[client'[g]] = "end" /\ worker'[client'[g]] # "none"
    <3>1. Installed(client'[g]) /\ client'[g] \in Initers
      BY <1>2, <2>3 DEF Inv, TypeOK, RefInv
    <3>2. QED
      BY <2>1, <3>1
  <2>4. /\ \A g \in Goroutines : pc'[g] \in {"close", "wait"} => client'[g] # None
        /\ \A j \in Initers :
             pc'[j] \in {"close", "wait", "install"} => client'[j] = default
    BY <1>1, <1>2, Kinds DEF Inv, RefInv
  <2>5. QED
    BY <1>1, <2>2, <2>3, <2>4 DEF RefInv, Installed
<1>6. OnceInv'
  BY <1>1, <1>2, Kinds DEF Inv, TypeOK, OnceInv
<1>7. ReplaceInv'
  BY <1>1, <1>2, Kinds DEF Inv, ReplaceInv
<1>8. HandoverAfterLastSend'
  BY <1>1, <1>2, Kinds DEF Inv, HandoverAfterLastSend
<1>9. QED
  BY <1>3, <1>4, <1>5, <1>6, <1>7, <1>8 DEF Inv

\* The lock is released: the default client is the new one, and the one before
\* it was closed (ReplaceInv).
LEMMA InstallKeeps ==
  ASSUME Inv, NEW i \in Initers, Install(i)
  PROVE  Inv'
<1> DEFINE woken == {g \in Readers : pc[g] = "blocked"}
<1>1. /\ pc[i] = "install" /\ default' = i /\ writer' = None /\ readers' = woken
      /\ pc' = [g \in Goroutines |-> IF g = i THEN "end"
                                     ELSE IF g \in woken THEN "reading" ELSE pc[g]]
      /\ UNCHANGED <<client, worker, once, calls, abandoned>>
  BY DEF Install
<1>2. /\ \A j \in Initers : pc'[j] = IF j = i THEN "end" ELSE pc[j]
      /\ \A g \in Readers : pc'[g] = IF g \in woken THEN "reading" ELSE pc[g]
      /\ \A g \in woken : g \in Readers /\ pc[g] = "blocked"
  BY <1>1, Kinds
<1> HIDE DEF woken
<1>3. /\ writer = i /\ readers = {} /\ worker[i] = "running" /\ client[i] = default
      /\ once[i] = "new"
  BY <1>1, Kinds DEF Inv, TypeOK, RefInv, OnceInv
<1>4. \A j \in Initers :
        j # i => pc[j] \notin {"drain", "close", "wait", "install"}
  BY <1>1, <1>3 DEF Inv, LockInv
<1>5. TypeOK'
  <2>1. pc' \in [Goroutines -> {"idle", "lock", "drain", "close", "wait", "install",
                                "blocked", "reading", "use", "end"}]
    BY <1>1 DEF Inv, TypeOK
  <2>2. readers' \subseteq Readers
    BY <1>1, <1>2
  <2>3. \A j \in Initers : pc'[j] \notin {"close", "wait", "install"}
    BY <1>2, <1>4
  <2>4. QED
    BY <1>1, <2>1, <2>2, <2>3 DEF Inv, TypeOK
<1>6. LockInv'
  <2>1. \A g \in Readers : g \in readers' <=> pc'[g] = "reading"
    <3>1. \A g \in Readers : pc[g] # "reading"
      BY <1>3 DEF Inv, LockInv
    <3>2. QED
      BY <1>1, <1>2, <3>1
  <2>2. \A j \in Initers :
          writer' = j <=> pc'[j] \in {"drain", "close", "wait", "install"}
    BY <1>1, <1>2, <1>4, Kinds
  <2>3. \A g \in Callers : pc'[g] \notin {"close", "wait"}
    BY <1>2, Kinds DEF Inv, LockInv
  <2>4. QED
    BY <1>2, <2>1, <2>2, <2>3 DEF Inv, LockInv
<1>7. \A c \in Initers : Installed(c) => pc'[c] = "end" /\ worker'[c] # "none"
  BY <1>1, <1>2 DEF Installed
<1>8. \A g \in Goroutines : pc'[g] \in {"close", "wait", "install"}
        => g \notin Initers /\ pc'[g] = pc[g]
  BY <1>2, <1>4, Kinds
<1>9. RefInv'
  <2>1. Installed(default)'
    BY <1>1, <1>2, <1>3 DEF Installed
  <2>2. \A g \in Goroutines : client[g] # None =>
          pc'[client[g]] = "end" /\ worker'[client[g]] # "none"
    BY <1>7 DEF Inv, TypeOK, RefInv
  <2>3. \A g \in Goroutines : pc'[g] \in {"close", "wait"} => client[g] # None
    BY <1>8 DEF Inv, RefInv
  <2>4. QED
    BY <1>1, <1>8, <2>1, <2>2, <2>3, Kinds DEF RefInv, Installed
<1>10. OnceInv'
  BY <1>1, <1>2, <1>3, <1>8 DEF Inv, OnceInv
<1>11. ReplaceInv'
  BY <1>8, Kinds DEF ReplaceInv
<1>12. HandoverAfterLastSend'
  <2> SUFFICES ASSUME NEW d \in Initers, pc'[d] = "end", worker[d] # "none", d # i
               PROVE  worker[d] = "done" \/ d \in abandoned
    BY <1>1 DEF HandoverAfterLastSend
  <2>1. pc[d] = "end"
    BY <1>2
  <2>2. CASE default = d
    BY <1>1, <1>3, <2>2, Kinds DEF Inv, ReplaceInv
  <2>3. CASE default # d
    BY <2>1, <2>3 DEF Inv, HandoverAfterLastSend
  <2>4. QED
    BY <2>2, <2>3
<1>13. QED
  BY <1>5, <1>6, <1>9, <1>10, <1>11, <1>12 DEF Inv

-----------------------------------------------------------------------------
(* The helpers                                                             *)

\* A reader moves, and takes at most the default client with it: no client
\* changes, and no call of Init.
LEMMA ReaderFrame ==
  ASSUME Inv, TypeOK', NEW g \in Readers,
         UNCHANGED <<default, writer, worker, once, abandoned>>,
         \A h \in Goroutines : h # g => pc'[h] = pc[h] /\ client'[h] = client[h],
         pc'[g] \in {"idle", "blocked", "reading", "use", "close", "end"},
         pc'[g] = "close" => g \in Closers /\ client'[g] # None,
         client'[g] \in {client[g], default},
         readers' = IF pc'[g] = "reading" THEN readers \cup {g} ELSE readers \ {g}
  PROVE  Inv'
<1>1. \A c \in Initers : pc'[c] = pc[c] /\ client'[c] = client[c] /\ c # g
  BY Kinds
<1>2. LockInv'
  <2>1. \A h \in Readers : h \in readers' <=> pc'[h] = "reading"
    BY Kinds DEF Inv, LockInv
  <2>2. \A h \in Callers : pc'[h] \notin {"close", "wait"}
    BY Kinds DEF Inv, LockInv
  <2>3. QED
    BY <1>1, <2>1, <2>2, Kinds DEF Inv, LockInv
<1>3. RefInv'
  <2>1. ASSUME NEW h \in Goroutines, client'[h] # None
        PROVE  pc'[client'[h]] = "end" /\ worker'[client'[h]] # "none"
    <3>1. Installed(client'[h]) /\ client'[h] \in Initers
      BY <2>1 DEF Inv, TypeOK, RefInv
    <3>2. QED
      BY <1>1, <3>1 DEF Installed
  <2>2. default # None => pc'[default] = "end" /\ worker'[default] # "none"
    BY <1>1 DEF Inv, TypeOK, RefInv, Installed
  <2>3. \A h \in Goroutines : pc'[h] \in {"close", "wait"} => client'[h] # None
    BY DEF Inv, RefInv
  <2>4. QED
    BY <1>1, <2>1, <2>2, <2>3 DEF Inv, RefInv, Installed
<1>4. OnceInv'
  <2>1. \A h \in Goroutines : pc'[h] = "wait" => once'[client'[h]] = h
    BY DEF Inv, OnceInv
  <2>2. QED
    BY <1>1, <2>1 DEF Inv, OnceInv
<1>5. ReplaceInv' /\ HandoverAfterLastSend'
  BY <1>1 DEF Inv, ReplaceInv, HandoverAfterLastSend
<1>6. QED
  BY <1>2, <1>3, <1>4, <1>5 DEF Inv

\* While Init holds the lock or waits for it nobody joins the readers.
LEMMA DefaultKeeps ==
  ASSUME Inv, NEW g \in Readers, Default(g)
  PROVE  Inv'
<1>1. /\ pc[g] = "idle" /\ g \notin readers
      /\ readers' = IF writer = None THEN readers \cup {g} ELSE readers
      /\ pc' = [pc EXCEPT ![g] = IF writer = None THEN "reading" ELSE "blocked"]
      /\ UNCHANGED <<default, writer, client, worker, once, abandoned>>
  BY DEF Default, Goto, Inv, LockInv
<1>2. calls' \in 0..MaxCalls
  BY DefaultAssumption DEF Default, Inv, TypeOK
<1>3. /\ \A h \in Goroutines : h # g => pc'[h] = pc[h]
      /\ pc'[g] = IF writer = None THEN "reading" ELSE "blocked"
      /\ \A i \in Initers : pc'[i] = pc[i]
  BY <1>1, Kinds DEF Inv, TypeOK
<1>4. TypeOK'
  <2>1. \A i \in Initers : pc'[i] \in {"close", "wait", "install"}
          => writer = i /\ readers' = {}
    BY <1>1, <1>3, Kinds DEF Inv, TypeOK
  <2>2. QED
    BY <1>1, <1>2, <2>1, Kinds DEF Inv, TypeOK
<1>5. QED
  BY <1>1, <1>3, <1>4, ReaderFrame

LEMMA ReadKeeps ==
  ASSUME Inv, NEW g \in Readers, Read(g)
  PROVE  Inv'
<1>1. PICK label \in {"idle", "use", "close", "end"} :
        /\ pc' = [pc EXCEPT ![g] = label]
        /\ label = "close" => g \in Closers /\ default # None
  <2>1. CASE default = None
    <3>1. CASE g \in Closers
      <4>1. pc' = [pc EXCEPT ![g] = "end"]
        BY <2>1, <3>1 DEF Read, Goto
      <4>2. QED
        BY <4>1
    <3>2. CASE g \notin Closers
      <4>1. pc' = [pc EXCEPT ![g] = "idle"]
        BY <2>1, <3>2 DEF Read, Goto
      <4>2. QED
        BY <4>1
    <3>3. QED
      BY <3>1, <3>2
  <2>2. CASE default # None /\ g \in Closers
    BY <2>2 DEF Read, Goto
  <2>3. CASE default # None /\ g \notin Closers
    BY <2>3 DEF Read, Goto
  <2>4. QED
    BY <2>1, <2>2, <2>3
<1>2. /\ pc[g] = "reading" /\ client' = [client EXCEPT ![g] = default]
      /\ readers' = readers \ {g}
      /\ UNCHANGED <<default, writer, worker, once, calls, abandoned>>
  BY DEF Read
<1>3. /\ \A h \in Goroutines : h # g => pc'[h] = pc[h] /\ client'[h] = client[h]
      /\ pc'[g] = label /\ client'[g] = default
      /\ \A i \in Initers : pc'[i] = pc[i]
  BY <1>1, <1>2, Kinds DEF Inv, TypeOK
<1>4. TypeOK'
  <2>1. \A i \in Initers : pc'[i] \in {"close", "wait", "install"}
          => writer = i /\ readers' = {}
    BY <1>2, <1>3 DEF Inv, TypeOK
  <2>2. QED
    BY <1>1, <1>2, <2>1, Kinds DEF Inv, TypeOK
<1>5. QED
  BY <1>1, <1>2, <1>3, <1>4, ReaderFrame

LEMMA UseKeeps ==
  ASSUME Inv, NEW g \in Readers, Use(g)
  PROVE  Inv'
<1>1. /\ pc[g] = "use" /\ pc' = [pc EXCEPT ![g] = "idle"] /\ g \notin readers
      /\ UNCHANGED <<default, writer, readers, client, worker, once, calls, abandoned>>
  BY DEF Use, Goto, Inv, LockInv
<1>2. /\ \A h \in Goroutines : h # g => pc'[h] = pc[h]
      /\ pc'[g] = "idle"
      /\ \A i \in Initers : pc'[i] = pc[i]
  BY <1>1, Kinds DEF Inv, TypeOK
<1>3. TypeOK'
  BY <1>1, <1>2 DEF Inv, TypeOK
<1>4. QED
  BY <1>1, <1>2, <1>3, ReaderFrame

-----------------------------------------------------------------------------
(* Theorems                                                                *)

LEMMA DefaultInv == Spec => []Inv
<1>1. Init => Inv
  <2> SUFFICES ASSUME Init PROVE Inv
    OBVIOUS
  <2>1. \A g \in Goroutines : pc[g] = "idle" /\ client[g] = None
    BY DEF Init
  <2>2. \A c \in Initers : worker[c] = "none" /\ once[c] = "new"
    BY DEF Init
  <2>3. TypeOK
    BY <2>1, Kinds, DefaultAssumption DEF Init, TypeOK
  <2>4. LockInv
    BY <2>1, Kinds DEF Init, LockInv
  <2>5. RefInv /\ OnceInv /\ ReplaceInv /\ HandoverAfterLastSend
    BY <2>1, <2>2, Kinds
    DEF Init, RefInv, OnceInv, ReplaceInv, HandoverAfterLastSend
  <2>6. QED
    BY <2>3, <2>4, <2>5 DEF Inv
<1>2. Inv /\ [Next]_vars => Inv'
  <2> SUFFICES ASSUME Inv, [Next]_vars PROVE Inv'
    OBVIOUS
  <2>1. ASSUME NEW i \in Initers, InitCall(i) \/ InitStep(i) PROVE Inv'
    <3>1. i \in Goroutines /\ i \notin Closers
      BY Kinds
    <3>2. QED
      BY <2>1, <3>1, InitCallKeeps, AnnounceKeeps, AcquireKeeps, CloseEnterKeeps,
         CloseSkipKeeps, CloseReturnKeeps, InstallKeeps DEF InitStep
  <2>2. ASSUME NEW g \in Readers, Default(g) \/ ReaderStep(g) PROVE Inv'
    <3>1. g \in Goroutines /\ g \notin Initers
      BY Kinds
    <3>2. QED
      BY <2>2, <3>1, DefaultKeeps, ReadKeeps, UseKeeps, CloseEnterKeeps,
         CloseSkipKeeps, CloseReturnKeeps, CloseAbandonKeeps DEF ReaderStep
  <2>3. CASE UNCHANGED vars
    BY <2>3 DEF vars, Inv, TypeOK, LockInv, RefInv, Installed, OnceInv, ReplaceInv,
                HandoverAfterLastSend
  <2>4. QED
    BY <2>1, <2>2, <2>3, WorkerDoneKeeps DEF Next, Ended
<1>3. QED
  BY <1>1, <1>2, PTL DEF Spec

\* However many calls of Init overlap, no worker runs that nobody can close: a
\* client whose Init has returned is the default client or has been closed
\* (client.go:112-118).
THEOREM DefaultNoLeakedClient == Spec => []NoLeakedClient
<1>1. Inv => NoLeakedClient
  BY DEF Inv, HandoverAfterLastSend, OnceInv, NoLeakedClient
<1>2. QED
  BY <1>1, DefaultInv, PTL

\* A client can only be used when the one before it has made its last sends or
\* was given up by a Close with a deadline (client.go:114-117).
THEOREM DefaultHandover == Spec => []HandoverAfterLastSend
<1>1. Inv => HandoverAfterLastSend
  BY DEF Inv
<1>2. QED
  BY <1>1, DefaultInv, PTL

-----------------------------------------------------------------------------
(* Waiting                                                                 *)

\* Nobody waits for a lock that is free, and whoever is inside once.Do waits for
\* the worker.
WaitInv ==
  /\ \A g \in Readers : pc[g] = "blocked" => writer # None
  /\ \A c \in Initers :
       once[c] \notin {"new", "used"} =>
         /\ once[c] \in Goroutines
         /\ pc[once[c]] = "wait" /\ client[once[c]] = c

\* A step of someone who is not inside once.Do, that leaves the lock alone and
\* sends nobody to wait for it
LEMMA WaitFrame ==
  ASSUME Inv, WaitInv, UNCHANGED <<writer, once>>, NEW g \in Goroutines,
         NEW label, Goto(g, label), label # "blocked" \/ writer # None,
         pc[g] # "wait", NEW c, client' = [client EXCEPT ![g] = c]
  PROVE  WaitInv'
<1>1. \A h \in Goroutines : h # g => pc'[h] = pc[h] /\ client'[h] = client[h]
  BY DEF Inv, TypeOK, Goto
<1>2. pc'[g] = label
  BY DEF Inv, TypeOK, Goto
<1>3. \A h \in Readers : pc'[h] = "blocked" => writer' # None
  BY <1>1, <1>2, Kinds DEF WaitInv
<1>4. ASSUME NEW d \in Initers, once'[d] \notin {"new", "used"}
      PROVE  /\ once'[d] \in Goroutines
             /\ pc'[once'[d]] = "wait" /\ client'[once'[d]] = d
  <2>1. /\ once[d] \in Goroutines /\ once[d] # g
        /\ pc[once[d]] = "wait" /\ client[once[d]] = d
    BY <1>4 DEF WaitInv
  <2>2. QED
    BY <1>1, <2>1
<1>5. QED
  BY <1>3, <1>4 DEF WaitInv

\* once.Do is entered, and left again
LEMMA WaitOnce ==
  ASSUME Inv, WaitInv, UNCHANGED <<writer, client>>, NEW g \in Goroutines,
         \/ CloseEnter(g)
         \/ \E next \in {"install", "end"} : CloseReturn(g, next)
         \/ CloseAbandon(g)
  PROVE  WaitInv'
<1> DEFINE c == client[g]
<1>1. c \in Initers /\ pc[g] \in {"close", "wait"}
  BY ClosingClient DEF CloseEnter, CloseReturn, CloseAbandon
<1>2. \/ /\ once' = [once EXCEPT ![c] = g] /\ Goto(g, "wait")
         /\ pc[g] = "close" /\ once[c] = "new"
      \/ /\ once' = [once EXCEPT ![c] = "used"]
         /\ pc[g] = "wait" /\ \E next \in {"install", "end"} : Goto(g, next)
  BY DEF CloseEnter, CloseReturn, CloseAbandon
<1> HIDE DEF c
<1>3. /\ \A h \in Goroutines : h # g => pc'[h] = pc[h]
      /\ pc'[g] \in {"wait", "install", "end"}
      /\ pc[g] = "close" => pc'[g] = "wait"
  BY <1>1, <1>2 DEF Inv, TypeOK, Goto
<1>4. /\ \A d \in Initers : d # c => once'[d] = once[d]
      /\ once'[c] = IF pc[g] = "close" THEN g ELSE "used"
  BY <1>1, <1>2 DEF Inv, TypeOK
<1>5. \A h \in Readers : pc'[h] = "blocked" => writer' # None
  BY <1>3, Kinds DEF WaitInv
<1>6. ASSUME NEW d \in Initers, once'[d] \notin {"new", "used"}
      PROVE  /\ once'[d] \in Goroutines
             /\ pc'[once'[d]] = "wait" /\ client'[once'[d]] = d
  <2>1. CASE d = c
    BY <1>3, <1>4, <1>6, <2>1 DEF c
  <2>2. CASE d # c
    <3>1. /\ once[d] = once'[d] /\ once[d] \in Goroutines
          /\ pc[once[d]] = "wait" /\ client[once[d]] = d
      BY <1>4, <1>6, <2>2 DEF WaitInv
    <3>2. once[d] # g
      BY <2>2, <3>1 DEF c
    <3>3. QED
      BY <1>3, <3>1, <3>2
  <2>3. QED
    BY <2>1, <2>2
<1>7. QED
  BY <1>5, <1>6 DEF WaitInv

LEMMA InitStepWaits ==
  ASSUME Inv, WaitInv, NEW i \in Initers, InitCall(i) \/ InitStep(i)
  PROVE  WaitInv'
<1> i \in Goroutines /\ i # None
  BY Kinds
<1> client = [client EXCEPT ![i] = client[i]]
  BY DEF Inv, TypeOK
<1>1. CASE InitCall(i)
  <2>1. (Goto(i, "lock") \/ Goto(i, "end")) /\ pc[i] # "wait"
    BY <1>1 DEF InitCall
  <2>2. UNCHANGED <<writer, once, client>>
    BY <1>1 DEF InitCall
  <2>3. QED
    BY <2>1, <2>2, WaitFrame
<1>2. CASE Announce(i)
  <2>1. /\ writer' = i /\ UNCHANGED <<once, client>> /\ pc[i] = "lock"
        /\ \A h \in Goroutines : h # i => pc'[h] = pc[h]
    BY <1>2 DEF Announce, Goto, Inv, TypeOK
  <2>2. QED
    BY <2>1 DEF WaitInv
<1>3. CASE Acquire(i)
  <2>1. /\ Goto(i, IF default = None THEN "install" ELSE "close")
        /\ UNCHANGED <<writer, once>> /\ pc[i] # "wait"
        /\ client' = [client EXCEPT ![i] = default]
    BY <1>3 DEF Acquire
  <2>2. QED
    BY <2>1, WaitFrame
<1>4. CASE CloseEnter(i) \/ CloseReturn(i, "install")
  BY <1>4, WaitOnce DEF CloseEnter, CloseReturn
<1>5. CASE CloseSkip(i, "install")
  BY <1>5, WaitFrame DEF CloseSkip
<1>6. CASE Install(i)
  <2>1. ASSUME NEW g \in Goroutines
        PROVE  /\ pc[g] = "wait" => pc'[g] = "wait"
               /\ g \in Readers => pc'[g] # "blocked"
    <3>1. g \in Readers => g # i
      BY Kinds
    <3>2. QED
      BY <1>6, <3>1 DEF Install
  <2>2. UNCHANGED <<once, client>>
    BY <1>6 DEF Install
  <2>3. QED
    BY <2>1, <2>2, Kinds DEF WaitInv
<1>7. QED
  BY <1>1, <1>2, <1>3, <1>4, <1>5, <1>6 DEF InitStep

LEMMA ReaderStepWaits ==
  ASSUME Inv, WaitInv, NEW g \in Readers, Default(g) \/ ReaderStep(g)
  PROVE  WaitInv'
<1> g \in Goroutines
  BY Kinds
<1> client = [client EXCEPT ![g] = client[g]]
  BY DEF Inv, TypeOK
<1>1. CASE Default(g)
  <2>1. /\ Goto(g, IF writer = None THEN "reading" ELSE "blocked")
        /\ UNCHANGED <<writer, once, client>> /\ pc[g] # "wait"
    BY <1>1 DEF Default
  <2>2. CASE writer = None
    BY <2>1, <2>2, WaitFrame
  <2>3. CASE writer # None
    BY <2>1, <2>3, WaitFrame
  <2>4. QED
    BY <2>2, <2>3
<1>2. CASE Read(g)
  <2>1. PICK label \in {"idle", "use", "close", "end"} : Goto(g, label)
    <3>1. CASE default = None /\ g \in Closers
      BY <1>2, <3>1 DEF Read
    <3>2. CASE default = None /\ g \notin Closers
      BY <1>2, <3>2 DEF Read
    <3>3. CASE default # None /\ g \in Closers
      BY <1>2, <3>3 DEF Read
    <3>4. CASE default # None /\ g \notin Closers
      BY <1>2, <3>4 DEF Read
    <3>5. QED
      BY <3>1, <3>2, <3>3, <3>4
  <2>2. /\ UNCHANGED <<writer, once>> /\ pc[g] # "wait"
        /\ client' = [client EXCEPT ![g] = default]
    BY <1>2 DEF Read
  <2>3. QED
    BY <2>1, <2>2, WaitFrame
<1>3. CASE Use(g) \/ CloseSkip(g, "end")
  BY <1>3, WaitFrame DEF Use, CloseSkip
<1>4. CASE CloseEnter(g) \/ CloseReturn(g, "end") \/ CloseAbandon(g)
  BY <1>4, WaitOnce DEF CloseEnter, CloseReturn, CloseAbandon
<1>5. QED
  BY <1>1, <1>2, <1>3, <1>4 DEF ReaderStep

LEMMA DefaultWaits == Spec => []WaitInv
<1>1. Init => WaitInv
  BY Kinds DEF Init, WaitInv
<1>2. Inv /\ WaitInv /\ [Next]_vars => WaitInv'
  <2> SUFFICES ASSUME Inv, WaitInv, [Next]_vars PROVE WaitInv'
    OBVIOUS
  <2>1. ASSUME NEW c \in Initers, WorkerDone(c) PROVE WaitInv'
    BY <2>1 DEF WorkerDone, WaitInv
  <2>2. CASE UNCHANGED vars
    BY <2>2 DEF vars, WaitInv
  <2>3. QED
    BY <2>1, <2>2, InitStepWaits, ReaderStepWaits DEF Next, Ended
<1>3. QED
  BY <1>1, <1>2, DefaultInv, PTL DEF Spec

\* Init closes a client under the lock that every helper needs, and still nobody
\* waits in a circle or for a lock that is free, for any number of goroutines
\* (client.go:112-126, 297-312).
THEOREM DefaultNoCircularWait == Spec => []NoCircularWait
<1>1. Inv /\ WaitInv => NoCircularWait
  <2> SUFFICES ASSUME Inv, WaitInv, NEW g \in Goroutines
               PROVE  /\ pc[g] = "blocked" => writer # None
                      /\ pc[g] = "wait" => worker[client[g]] \in {"closing", "done"}
                      /\ \A h \in WaitsFor(g) : /\ pc[h] \notin {"idle", "end"}
                                                /\ Level(pc[h]) < Level(pc[g])
    BY DEF NoCircularWait
  <2>1. g \in Initers \/ g \in Readers
    BY Kinds
  <2>2. pc[g] = "blocked" => writer # None
    BY <2>1 DEF Inv, LockInv, WaitInv
  <2>3. ASSUME pc[g] = "wait" PROVE worker[client[g]] \in {"closing", "done"}
    <3>1. client[g] \in Initers /\ once[client[g]] = g
      BY <2>3, ClosingClient DEF Inv, OnceInv
    <3>2. QED
      BY <3>1, Kinds DEF Inv, OnceInv
  \* the writer has the lock or waits for its readers
  <2>4. ASSUME pc[g] \in {"lock", "blocked"}, NEW h \in WaitsFor(g)
        PROVE  pc[h] \notin {"idle", "end"} /\ Level(pc[h]) < Level(pc[g])
    <3>1. h = writer /\ h \in Initers
      BY <2>4 DEF WaitsFor, Inv, TypeOK
    <3>2. pc[h] \in {"drain", "close", "wait", "install"}
      BY <3>1 DEF Inv, LockInv
    <3>3. QED
      BY <2>4, <3>2 DEF Level
  \* readers have their lock for a moment only
  <2>5. ASSUME pc[g] = "drain", NEW h \in WaitsFor(g)
        PROVE  pc[h] \notin {"idle", "end"} /\ Level(pc[h]) < Level(pc[g])
    <3>1. h \in readers /\ h \in Readers
      BY <2>5 DEF WaitsFor, Inv, TypeOK
    <3>2. pc[h] = "reading"
      BY <3>1 DEF Inv, LockInv
    <3>3. QED
      BY <2>5, <3>2 DEF Level
  \* whoever is inside once.Do waits for the worker
  <2>6. ASSUME pc[g] = "close", NEW h \in WaitsFor(g)
        PROVE  pc[h] \notin {"idle", "end"} /\ Level(pc[h]) < Level(pc[g])
    <3> DEFINE c == client[g]
    <3>1. c \in Initers
      BY <2>6, ClosingClient
    <3>2. h = once[c] /\ h \notin {"new", "used"}
      BY <2>6 DEF WaitsFor
    <3>3. pc[h] = "wait"
      BY <3>1, <3>2 DEF WaitInv
    <3>4. QED
      BY <2>6, <3>3 DEF Level
  <2>7. pc[g] \notin {"lock", "blocked", "drain", "close"} => WaitsFor(g) = {}
    BY DEF WaitsFor
  <2>8. QED
    BY <2>2, <2>3, <2>4, <2>5, <2>6, <2>7
<1>2. QED
  BY <1>1, DefaultInv, DefaultWaits, PTL

-----------------------------------------------------------------------------
(* Every client is one                                                     *)

\* A step that does nothing to client c
LEMMA LifeFrame ==
  ASSUME NEW c \in Initers,
         worker'[c] = worker[c], once'[c] = once[c],
         c \in abandoned' <=> c \in abandoned
  PROVE  UNCHANGED Life(c)!vars
BY DEF Life!vars

\* What Close does to the client it closes
LEMMA LifeClose ==
  ASSUME Inv, NEW c \in Initers, NEW g \in Goroutines, NEW next,
         CloseEnter(g) \/ CloseReturn(g, next) \/ CloseAbandon(g)
  PROVE  Life(c)!Next \/ UNCHANGED Life(c)!vars
<1> DEFINE d == client[g]
<1>1. d \in Initers /\ worker[d] # "none"
  BY ClosingClient DEF CloseEnter, CloseReturn, CloseAbandon
<1>2. CASE d # c
  <2>1. /\ worker'[c] = worker[c] /\ once'[c] = once[c]
        /\ c \in abandoned' <=> c \in abandoned
    BY <1>1, <1>2 DEF CloseEnter, CloseReturn, CloseAbandon, Inv, TypeOK
  <2>2. QED
    BY <2>1, LifeFrame
<1>3. CASE d = c /\ CloseEnter(g)
  <2>1. once[c] = "new" /\ worker[c] = "running"
    BY <1>1, <1>3 DEF CloseEnter, Inv, OnceInv
  <2>2. /\ once'[c] = g /\ worker'[c] = "closing" /\ UNCHANGED abandoned
        /\ g \notin {"new", "used"}
    BY <1>1, <1>3, Kinds DEF CloseEnter, Inv, TypeOK
  <2>3. Life(c)!Cancel
    BY <2>1, <2>2 DEF Life!Cancel
  <2>4. QED
    BY <2>3 DEF Life!Next
<1>4. CASE d = c /\ CloseReturn(g, next)
  <2>1. once[c] \notin {"new", "used"}
    BY <1>4, Kinds DEF CloseReturn, Inv, OnceInv
  <2>2. once'[c] = "used" /\ worker[c] = "done" /\ UNCHANGED <<worker, abandoned>>
    BY <1>1, <1>4 DEF CloseReturn, Inv, TypeOK
  <2>3. Life(c)!Return
    BY <2>1, <2>2 DEF Life!Return
  <2>4. QED
    BY <2>3 DEF Life!Next
<1>5. CASE d = c /\ CloseAbandon(g)
  <2>1. once[c] \notin {"new", "used"}
    BY <1>5, Kinds DEF CloseAbandon, Inv, OnceInv
  <2>2. once'[c] = "used" /\ c \in abandoned' /\ UNCHANGED worker
    BY <1>1, <1>5 DEF CloseAbandon, Inv, TypeOK
  <2>3. Life(c)!GiveUp
    BY <2>1, <2>2 DEF Life!GiveUp
  <2>4. QED
    BY <2>3 DEF Life!Next
<1>6. QED
  BY <1>2, <1>3, <1>4, <1>5

\* NewClient starts the worker, and the worker ends.
LEMMA LifeWorker ==
  ASSUME Inv, NEW c \in Initers, NEW d \in Initers, InitCall(d) \/ WorkerDone(d)
  PROVE  Life(c)!Next \/ UNCHANGED Life(c)!vars
<1>1. UNCHANGED <<once, abandoned>>
  BY DEF InitCall, WorkerDone
<1>2. CASE d # c
  <2>1. worker'[c] = worker[c]
    BY <1>2 DEF InitCall, WorkerDone, Inv, TypeOK
  <2>2. QED
    BY <1>1, <2>1, LifeFrame
<1>3. CASE d = c /\ InitCall(d)
  <2>1. worker[c] = "none"
    BY <1>3 DEF InitCall, Inv, OnceInv
  <2>2. worker'[c] = "running" \/ worker'[c] = worker[c]
    BY <1>3 DEF InitCall, Inv, TypeOK
  <2>3. CASE worker'[c] = "running"
    BY <1>1, <2>1, <2>3 DEF Life!Next, Life!Start
  <2>4. CASE worker'[c] = worker[c]
    BY <1>1, <2>4, LifeFrame
  <2>5. QED
    BY <2>2, <2>3, <2>4
<1>4. CASE d = c /\ WorkerDone(d)
  <2>1. worker[c] = "closing" /\ worker'[c] = "done"
    BY <1>4 DEF WorkerDone, Inv, TypeOK
  <2>2. QED
    BY <1>1, <2>1 DEF Life!Next, Life!Finish
<1>5. QED
  BY <1>2, <1>3, <1>4

LEMMA LifeStep ==
  ASSUME NEW c \in Initers
  PROVE  Inv /\ [Next]_vars => [Life(c)!Next]_(Life(c)!vars)
<1> SUFFICES ASSUME Inv, [Next]_vars
             PROVE  Life(c)!Next \/ UNCHANGED Life(c)!vars
  OBVIOUS
<1>1. ASSUME UNCHANGED <<worker, once, abandoned>>
      PROVE  UNCHANGED Life(c)!vars
  BY <1>1, LifeFrame
<1>2. ASSUME NEW i \in Initers, InitCall(i) \/ InitStep(i)
      PROVE  Life(c)!Next \/ UNCHANGED Life(c)!vars
  <2>1. i \in Goroutines
    BY Kinds
  <2>2. QED
    BY <1>1, <1>2, <2>1, LifeClose, LifeWorker
    DEF InitStep, Announce, Acquire, CloseSkip, Install
<1>3. ASSUME NEW g \in Readers, Default(g) \/ ReaderStep(g)
      PROVE  Life(c)!Next \/ UNCHANGED Life(c)!vars
  <2>1. g \in Goroutines
    BY Kinds
  <2>2. QED
    BY <1>1, <1>3, <2>1, LifeClose DEF ReaderStep, Default, Read, Use, CloseSkip
<1>4. CASE UNCHANGED vars
  BY <1>1, <1>4 DEF vars
<1>5. QED
  BY <1>2, <1>3, <1>4, LifeWorker DEF Next, Ended

\* Whatever Init, the helpers and the closing agent do at the same time, each
\* client lives as Client's does (ClientHasLife): it is cancelled once, by the
\* first Close, its worker ends once and stays ended, and a client that was given
\* up is not closed again.
THEOREM DefaultClientsHaveLife ==
  ASSUME NEW c \in Initers
  PROVE  Spec => Life(c)!Spec
<1>1. Init => Life(c)!Init
  BY DEF Init, Life!Init
<1>2. Inv /\ [Next]_vars => [Life(c)!Next]_(Life(c)!vars)
  BY LifeStep
<1>3. QED
  BY <1>1, <1>2, DefaultInv, PTL DEF Spec, Life!Spec

=============================================================================
