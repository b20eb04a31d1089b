# A TLA+ model of statokgo

statokgo is a Go library that ships metrics to an ingester, and an agent,
`statok-hostmetrics`, that uses it to report on a host. This directory models the
parts of both that keep state and share it between goroutines, checks them with TLC
on small instances, and proves the safety properties of each of them with TLAPS for
every value of the constants.

Paths and line numbers refer to the repository; `src/` stands for its root.
`PROJECT.json` lists the components, the runs, the mutants that show that each
property can fail, the source lines behind each definition, the findings, the hazards
and the theorems.

## 1. The system

| Component | State | Operations | Module |
|---|---|---|---|
| **Client** `client.go` | event queue (a channel of 64k events), batch, baselines of totals, retry queue, attempts, client-wide backoff, `stopSending`, the `sync.Once` of `Close` | `Count`/`CountUnique`/`Total`/`Value` (any goroutine), the worker `run` with `flush`, `sendPayload`, `flushRetryQueue`, `enqueueRetryAt`, and `Close` | `Client`, `Backoff`, `RetryQueue`; `Delivery` and `ClientLife` are what it promises |
| **Value rate limiter** `value_rate_limiter.go` | one 64-bit word: the second counted and the samples let through in it | `allow` | `ValueRateLimiter` |
| **Event pool** `event.go` | event objects, each with a label array that outlives its use | `borrowEvent`, `borrowUniqueEvent`, `releaseEvent` | `EventPool`, `Pipeline` |
| **Batch builder** `batch_builder.go` | payload, hash table with bucket lists, set of unique occurrences | `add`, `build` | `BatchBuilder`, `Pipeline` |
| **HTTP transport and line protocol** `transport.go`, `line_protocol_v4.go` | mutex, dictionary: session, revision, series ids | `Send`: encode, post, resync after a dictionary miss | `HTTPTransport` |
| **Default client** `client.go:99-161` | `defaultClient`, `defaultMu` | `Init`, `Default` and the package-level helpers, `flushAndClose` of the agent | `DefaultClient` |
| **Agent runner** `internal/agent/runner.go`, `cmd/statok-hostmetrics/main.go` | slots, tickers, deadlines, one goroutine per collector | probe, start, collect, shut down | `AgentRunner`, `HostAgent` |
| **Agent configuration** `cmd/statok-hostmetrics/config.go`, `main.go` | none: a function of files, flags and variables | find and load the file, expand variables, resolve workload and integrations | `AgentConfig`, `HostAgent` |
| **Nginx collector** `internal/collectors/nginx` | the endpoint its probe found | `Detect`, `Collect` | `AgentConfig`, `HostMetrics` |
| **Core collectors** `internal/collectors/core` | the previous CPU sample; the baselines of their totals are the client's | `Collect` | `HostMetrics` |
| **Docker collector** `internal/collectors/docker` | previous samples, worker goroutines on a channel | `Collect` | `DockerCollector` |
| **Mongo collector** `internal/collectors/mongo` | per instance: connection, next attempt, previous latencies | `Collect`, `Close` | `MongoCollector` |
| Log limiter, load generator | see section 7 | | |

How they interact. Application goroutines and collectors call the helpers, which read
the default client under a read lock and try a channel send; value samples first pass
the rate limiter. The worker goroutine of the client is the only reader of the
channel, the only user of the batch, of the retry queue and of the batch builder, and
the only caller of the transport. Several clients may share one transport, which
serialises them with its mutex. The agent gives every collector a goroutine and a
deadline, and at shutdown cancels them, closes them and then closes the default
client with a deadline of its own.

What is hard to get right, and what would make each part correct:

- *Client.* An event is enqueued after a check that is stale by then; batches move
  between the send in progress and the retry queue while a pass iterates over that
  queue; deferrals put batches back without counting an attempt; `Close` races with
  callers. Correct means: no event vanishes or is handled twice, retries are bounded
  in memory and traffic, a resend keeps the identity of its batch, `Close` drains
  and returns, a disabled client stays silent, and a recovery reaches every batch that
  waits.
- *Rate limiter.* Goroutines are overtaken between reading the clock, loading the
  word and swapping it, and the wall clock jumps. Correct means: never more than the
  limit in one second, never a needless denial, and every call returns.
- *Transport.* Definitions travel once, requests get lost, arrive late or are
  refused, and the ingester forgets. Correct means: an id never names a wrong series,
  a miss is repaired by one resend, and what the ingester has accepted, if only in
  part, is not sent again.
- *Batch builder.* Series collide in a hand-made hash table with a cap. Correct means:
  the payload adds up to what was recorded, and rounding it for the wire does not
  add up to more than half a unit a line.
- *Event pool.* An object is filled by the next caller while the payload built from
  its last use may still wait for a retry. Correct means: an object has one owner, and
  a payload does not change under it.
- *Default client.* `Init` replaces a client that is in use. Correct means: no worker
  leaks, the old client is flushed before the new one is used, nobody hangs.
- *Agent.* Failing, panicking and slow collectors share slots. Correct means: no slot
  is lost, collectors do not starve each other, shutdown ends and is orderly.
- *Configuration.* Files come and go between `Stat` and `ReadFile`, and flags,
  variables, env files and defaults override each other. Correct means: what was
  overridden has no influence, and what was asked for is done or the agent refuses to
  start; an nginx that is not reached at startup is left out.
- *Collectors.* State survives containers, servers and connections that come and go.
  Collections are skipped and samples turned away. Correct means: what is reported
  happened, totals catch up with what was missed, nothing is leaked, one
  bad instance does not silence the others.

The hazards behind this list are in `PROJECT.json`, each at the line where it bites
and with the properties that would catch it.

## 2. The models

Each component has a module that models it, with its properties at the end, and an
`MC` module that gives TLC the values of its constants. Operators named `X_Y` and
commented *Mutant* are plausible bugs of `X`, used only to show that a property can
fail. Variables listed under *history* are for the properties only; no guard reads
them, except to keep a counter within its bound.

**Client.** `Call`/`Enqueue` are the two halves of `enqueue`: the check of
`stopSending` and `done`, and the non-blocking send, with room for other goroutines
in between. A call that is refused before it borrows an event (a `workload` label, an
invalid unique id, the rate limiter) leaves no trace and is no step. `Tick`,
`Receive`, `Cancel` and `Drained` are the cases of the two selects of `run`. `Flush`
is `flush` up to the call of `sendPayload`; `PassBegin`, `PassPick` and `PassEnd` are
`flushRetryQueue`; `SendStopped`, `Defer`, `Send` and the three outcomes `SendOK`,
`SendTransient` and `SendFatal` are `sendPayload`, with the program counters `pc`
(where the worker is) and `ret` (where it continues after `sendPayload`). Closers run
`CloseEnter` (`once.Do`), `ContextDone` and `CloseReturn`. An event is an id, a type,
a series and a value; a payload is a batch id and a set of event ids. Time is
relative: `nextSendAttempt` and `nextAttempt` hold what is left to wait and `Elapse`
takes one unit off all of them. The delays are sets given by constants; `MCClient`
computes them with `Backoff`, which is the doubling loop that `retryDelay` and
`clientBackoffDelay` share and their jitter, and an assumption checks that loop against
powers of two for the code's own caps.

**RetryQueue** is the same worker, neither closed nor stopped, under calls that never
stop. `Client` numbers every event and so bounds the calls, and with them the fresh
batches that go ahead of a retry; here only one batch, `mine`, is told from the others,
and `FullBatch` and `Tick` may send a fresh one for ever. `fate` says what has become of
`mine`.

**Delivery** is the abstract specification of the client, without queue sizes, ticker,
gate or retry passes: an event recorded is accepted into one ordered intake or
rejected; batches are cut from the front of the intake; a batch keeps its number and its
events, is tried a bounded number of times and is delivered or given up as a whole; a
stopped client tries nothing more; a closed one has emptied its intake of what was
accepted before. `Client` instantiates it as `Promise`: the intake is the worker's batch
followed by the channel, the open batches are the one in `sendPayload` and those of the
retry queue, each with the number of times it was handed to the transport. `KeepsPromise`
is `Promise!Spec`. The steps that only move a batch between these places (`PassPick`,
`Defer`, a requeue), pass time or move the select are stutters.

**ClientLife** is the other abstract specification of the client, the one its owner
sees: a worker that sends until the first `Close` cancels it and ends some time later,
and a `sync.Once` that is used up when that `Close` returns, because the worker is done
or because its context is. `Client` instantiates it as `Life`, and `DefaultClient` as
`Life(c)` for each client that a call of `Init` makes.

**ValueRateLimiter.** One action per atomic access: `Enter` reads the clock, `Load`
the word, `CompareAndSwap` tries to change it. The word is packed as in the code, 16
bits of count below the second, and `Clock` sets the wall clock to any second.

**Pipeline** follows event objects instead of events and composes two modules of
operators. `EventPool` has `borrowEvent` and `releaseEvents`; an object's label array
keeps its contents until the next borrower overwrites it, and a label slice elsewhere is
either a copy or *is* the object whose array it shares, so that a missing `cloneLabels`
shows. `BatchBuilder` has `addCounter`, `addValue`, `addUnique`, `add` and `build`, with
`counterEntries` and `counterAggs` as the code has them, 1-based links included; `Find`
walks a bucket, and series, hash function and collisions are constants. In `Pipeline`
`Borrow` and `Enqueue` are the caller; `Receive`, `Absorb`, `Flush`, `Add`, `Build`,
`SendOK`, `SendFail`, `Release` and `Resend` are the worker, which here may flush, fail
and retry whenever `Client` could. Values are numbers of `Scale`-ths and `Round` is
`math.Round`, applied to every line as `encodeLinePayloadV4` does.

**HTTPTransport.** `SendNew` and `SendAgain` are the client's calls, of a new batch or
of one that waits for a retry; `Lock` (which encodes and posts), `Response` (with the
resync) and `Fail` are `send`. The ingester is not in the repository: `Process`,
`ProcessLate` and `Forget` say what the transport has to expect of one that keeps
definitions per session. It may take any part of a body and answer 2xx, from a body that
it refuses it takes nothing, and it does not deduplicate. An answer is a status, an error
code and whether events were dropped or rejected, or none at all, and
`shouldStopOnStatus`, `shouldStopOnResponseCode`, `shouldRetryTransport` and `Verdict`
make of it what `send` and the client do: a 2xx is `nil` whatever was dropped. The code
reads the counts of error answers too and acts on none of them. The diagnostics of
`transport.go` and the format of numbers and labels are left out. Two dictionaries
never share a session, which the code gets from a clock in nanoseconds.

**DefaultClient.** Go's `RWMutex` in two halves (`Announce` shuts new readers out,
`Acquire` waits for the old ones), `Init` under it, the helpers, and `Close` reduced
to its `sync.Once` and a worker that ends some time after it is cancelled: `ClientLife`.
`WaitsFor` says whom a goroutine waits for, and `Level` in which order locks are taken.

**AgentRunner.** The main goroutine is configured or refuses to start, probes, starts,
waits, closes and flushes. A collector collects at its start and on ticks; `collectOnce`
takes a slot or waits in the order of Go's channel. `CollectTimeout` runs while a
collector waits too, so `Skip` may end that wait at any time; for a collection in progress
the deadline is one more way to fail. `Slow` are the collectors that may take seconds.
What the configuration says and what a collection does is left open.

**AgentConfig** is a set of functions of what the process meets when it starts:
`resolveConfigSource` and `loadFileConfig` (a file may be missing, out of reach,
unreadable, malformed, or vanish between the two), `expandEnvStrings` with the env files,
`resolveWorkload`, `resolveRuntimeConfig`, and what makes `main` give up. A string is one
of the classes the code tells apart: blank, not valid, a `${VAR}`, or a value; `Input` is
the set of all inputs over a set of strings. `InTime` says whether the search still has
time for an endpoint, by counting those before it that hang.
`autoProbeEndpoint` is the search for nginx with its two timeouts.

**HostMetrics** has one counter of the host and what collectors make of it: those that
record it as a `Total` (network, disk, nginx), whose baseline is the client's and moves
only when the event reaches the worker, and the one that keeps its own previous sample
(CPU), which moves also when its value is turned away.

**HostAgent** composes the three: `Startup` gives the runner the probes that the
configuration asks for or makes it refuse, `Detect` runs them in the order of `main`, a
collection that finishes has read the counter or failed before it, and the host works
while collectors run.

**DockerCollector.** `List`, the `sendLoop` (`Hand`, `BreakLoop`, `CloseChannel`),
the workers (`Stats`, `Total`, `Cpu`, `WorkerEnd`) and `Finish`. The daemon is
external: containers start, stop, restart with counters at 0, and work. `Total` is
composed with the client's `applyTotal`, down to the delta that is counted.

**MongoCollector.** The loop over the instances with its skip and its early return,
`Attempt`, `Connect`, the ping and the status with their failures, `resetClient` and
`Close`. Servers are up, refuse or hang, and answer in a given time; every call ends
at the deadline of its context.

The modules compose by refinement and by assumption and guarantee: `Client` implements
`ClientLife` and every client in `DefaultClient` is one, which is proved, and that a
cancelled worker does end, which `DefaultClient` takes as fairness, is what
`CloseCompletes` shows; `MongoCollector` assumes that collections keep coming, which
`runner` shows (`KeepsCollecting`, Mongo being its slow collector), and `HostAgent` that
a collection ends, which `docker` shows (`CollectReturns`) and `mongo` bounds in time
(`OverrunBounded`); `Pipeline` allows every order of flushes, failures and retries that
`Client` restricts. `DockerCollector` and `HostMetrics` contain the part of `Client`
that their question is about.

## 3. The runs

Every passing run checks deadlock too. The models stop only where the program may:
a client that has shut down, or a bound that is used up, is an explicit stuttering
action (`Terminated`, `Quiet`, `Idle`, `Ended`, `Exited`). Type correctness is a
conjunct of one of the invariants of each model.

| Run | Instance | Shows |
|---|---|---|
| `client` | one caller with counters and totals, two closers, 2 calls, queue 1, batches of 2, retry queue 2, 2 attempts | `EveryEventAccounted`, `RetryBounded`, `BatchIdentity`, `CloseDrains`, `DeferralNeverLoses`, `StopIsFinal`, `CloseProgress`, `KeepsPromise` (the refinement of `Delivery`), `CloseCompletes` |
| `client_gated_close` | the smallest client | finding 1, `ClosePassAttempts` violated |
| `retries` | any number of batches, retry queue 2, one send a pass, 2 attempts | `RecoveryReachesAll` |
| `limiter` | 3 goroutines, 2 seconds, limit 2 | `AtMostPerSecond`, `DenialJustified`, `CallReturns` |
| `transport` | 2 clients on one transport, 2 series, a dictionary of 2, 3 calls of `Send` | `NoMisattribution`, `DictionaryVersioned`, `ResyncSelfContained`, `ReplayOnlyUnanswered`, `SendReturns` |
| `default_client` | 2 goroutines in `Init`, 1 in the helpers, 2 in `Close` | `NoLeakedClient`, `HandoverAfterLastSend`, `NoCircularWait`, `AllReturn` |
| `default_blocked_call` | as above with 2 callers | finding 2, `HelpersNeverBlock` violated |
| `runner` | about 1000 inputs at startup; the CPU collector, Mongo and nginx on 2 slots, Mongo slow; a counter up to 2 | `SlotsAccounted`, `QuietBeforeClose`, `TotalsCatchUp`, `StartsAsAsked`, `ShutdownCompletes`, `KeepsCollecting` |
| `builder` | 3 event objects, 3 series of which 2 collide, cap 2, 3 events, queue 1, batches of 3, retry queue 1, values in quarters, a sample | `PayloadConserved`, `LookupExact`, `OneOwner`, `RoundingBounded` |
| `docker` | 3 containers, one without a label, 2 workers, lists of 2 | `PrevPruned`, `VisitsEach`, `CountedIsTraffic`, `CollectReturns` |
| `docker_replicas` | 2 containers of one service | finding 3, `CountedIsTraffic` violated |
| `mongo` | 3 instances: slow, malformed, fast; deadline 3, operation timeout 2, disconnect 1, retry after 2 collections | `NoLeakedConnection`, `OverrunBounded`, `ReportedIsWork`, `HealthyCollected` |

What the properties say is written above each of them. The bounds, and why they reach
the interesting cases:

- *Client.* Two calls fill a queue of one, or a batch of two, or make two batches, which
  are enough for a pass that removes one while the other's failure appends behind it; two
  attempts give every batch a first send, a retry and a refusal. A `Close` may come at
  every moment, and a second one during it or after it. With two totals of one series
  a baseline is set, raised, repeated and lowered. Every safety property of this run is
  also a theorem for all other values. The delays are one unit here and grow to their cap
  in `retries` and `client_gated_close`; caps are 2 base delays instead of 8 and 30, and
  jitter (up to 1 s for a batch, up to 5 s for the client) is left out here. A batch that
  is due while the gate is closed, which jitter makes more frequent, is reached without
  it: a second batch fails and closes the gate anew. The proofs hold for all sets of
  delays.
- *Retry queue.* There is no bound on calls. A pass of one send with two places in the
  queue has to come back for the second batch, behind fresh ones, and may meet the gate
  that their failures closed. The delays have their jitter.
- *Limiter.* With a limit of two, a third goroutine meets an exhausted window while
  the other two race; two seconds make the clock go on and back. The proofs cover the
  rest.
- *Transport.* Three calls allow a lost first definition, a body that builds on it and
  a resync or a late arrival in between. A dictionary of two is full after one payload
  that repeats a series and brings two, or after both, so that the next session numbers
  its series differently. A misconfigured sender returns at once and is left to the
  proofs, as are more senders and longer payloads. A call may be
  a new batch or one that is sent again, so three are enough for a batch that is sent,
  taken in part or not at all, and sent again next to another's.
- *Builder.* Three events on three objects: one may wait in the retry queue while its
  object is filled again and sent in another batch; a batch of three meets an aggregated
  series, a shared bucket and a series beyond the cap of two. Objects are interchangeable,
  and so are the two series that collide, which is the symmetry used. In the code the cap
  (2048) is above the batch size (512), so it is not met today; the model does not rely on
  that. A value is three quarters of a unit or half a unit back, which `math.Round` takes
  up and away from zero.
- *Startup.* The inputs vary where the file is, what is in it and how nginx answers, each
  with the rest plain: precedence and errors relate inputs of one of these groups.
  A request of 2 within a deadline of 3 lets the second hanging endpoint end the search,
  as 2 s and 3 s do in the code. Docker's probe, which only says yes or no, is left out of
  this instance: a fourth collector multiplies the states without a new kind of
  interleaving.
- *Collectors.* One collector more than slots, and one slot more than slow collectors
  (in the code there are 6 to 9 on 4 slots, of which docker, mongo and nginx wait for a
  network); one container more than a list and more than workers; one healthy instance
  behind a slow one and one that always fails. `MaxUsage`, `MaxGrowth`, `MaxOps` and
  `MaxWork` bound counters whose values only matter as smaller, equal or larger.

### Fairness

- *Client.* The worker moves on when it can, `Transport.Send` ends (its context has
  a deadline of 5 s, `client.go:455`), time passes, and a goroutine inside `Count` or
  `Close` moves on: weak fairness. Go's `select` chooses at random among ready cases,
  so a case that is ready again and again is chosen: strong fairness of `Tick`,
  `Receive` and `Cancel`. No outcome of a send is ever guaranteed, and nobody has to
  call anything. That the drain loop of `Close` ends rests on the bound on the number
  of calls: callers that kept the queue filled for ever would keep it running, and
  each turn of it sends what they enqueue.
- *Retry queue.* The same, and strong fairness of `Tick` only: no batch need become full
  and no tick need have a fresh batch. `RecoveryReachesAll` is a property of the runs in
  which sends stop failing transiently.
- *Limiter, default client, Docker.* Weak fairness of each goroutine that is inside an
  operation. `DefaultClient` also takes it that a cancelled worker ends, which
  `CloseCompletes` shows.
- *Transport.* A request ends at its deadline: weak. `sync.Mutex` hands over to a
  waiter that has waited for a millisecond: strong fairness of `Lock`.
- *Runner.* Weak fairness of goroutines and of time, strong fairness of `Leave`
  because it is a case of a select. A collection is taken to end: the integrations pass
  their context to every request, and the core collectors read files of the kernel. The
  one exception is `statfs` (`core/fs.go:81`), which knows no context: on a network mount
  that hangs, the file system collector never returns, and neither property of the runner
  holds. `KeepsCollecting` has a premise besides, `QuickAreQuick` from some time on: while
  a collection that is not slow is in progress, no waiter's deadline of 3 s passes. It is
  what the core collectors, which read files of the kernel, are for, and it is needed:
  collectors that all took seconds could pass the slots among themselves. Fewer slow
  collectors than slots (`SlotsForSlow`) is what the code has, 3 for 4; TLC finds the
  property violated without either.
- *Mongo.* Weak fairness of `Collect`: the agent keeps calling it and the driver
  honours the deadline of every call. Servers and clients of servers owe nothing.

## 4. Findings

Where the documentation promises more than the code does, a run shows it.

1. `client_gated_close`. `README.md:118` says that `Close` "makes a final bounded
   attempt for retry batches even if their backoff has not elapsed yet". The final
   pass ignores the backoff of the batches, but `sendPayload` still honours the
   client-wide gate (`client.go:451`). While that is closed, as it is after any recent
   failure, each batch goes back to the retry queue unsent and is lost with the worker.
2. `default_blocked_call`. `README.md:60` says that the helpers "never block". `Init`
   closes the client it replaces, without a deadline, under the write lock of
   `defaultMu` (`client.go:115`), and a package-level helper that comes then waits for
   the network sends of the old worker.
3. `docker_replicas`. Containers of one service record their own running totals in one
   series (`docker/cpu.go:193`). `applyTotal` takes the step from the smaller total to
   the larger for growth, in every collection, so traffic is counted that never
   happened. `cmd/statok-hostmetrics/README.md:9` calls these metrics "deltas over the
   collection interval".

Seen while modelling, without a run of their own:

- In an outage that lasts while calls go on, retries stand still. Each tick sends a fresh
  batch before it turns to the retries (`client.go:336`), and it is that batch which takes
  the gate when it opens, fails and closes it again; the pass behind it only defers what
  is due, without counting an attempt (`client.go:480`). Batches in the retry queue are
  then neither tried again nor given up (`README.md:68`: "retried in the background";
  `README.md:155`: dropped "when the retry queue is full or the retry budget is
  exhausted"); what a full queue refuses are the fresh ones. `RecoveryReachesAll` has
  recovery for its premise for this reason.
- A second `Close` returns `nil` while the worker still drains, if the first gave up
  at its deadline (`client.go:302`; `README.md:117`: "waits for worker shutdown"), and a
  `Close` that comes while the first waits is blocked in `once.Do` and does not look at
  its own context (`README.md:118`: "returns early if `ctx` is canceled").
- A collector that waits for a slot longer than `CollectTimeout` skips that
  collection, the one at the start too (`runner.go:122`;
  `cmd/statok-hostmetrics/README.md:5`: "all enabled collectors run once immediately").
- A Mongo instance that hangs in `serverStatus` costs its operation timeout and a
  disconnect, together the whole deadline. `HealthyCollected` therefore needs fewer
  such instances ahead of the healthy one than there are collections in a retry
  interval (6 in the code). Instances that are slow but answer are not skipped, and
  enough of them starve those behind.
- The average latency of a Mongo report is the quotient of two differences. Each is
  bounded by the work since the previous report (`ReportedIsWork`), the quotient is not:
  after a restart that went unnoticed, 5 operations and a latency of 100 before it and 6
  and 500 after it are reported as 400 per operation, where the mean was 83
  (`collector.go:194-227`).
- Mongo instances on one host share the `instance` label, since `InstanceLabelFromURI`
  drops the port (`internal/integrations/instance.go:38`): their running totals meet in
  one series, as in finding 3.
- The search for nginx "uses the first reachable endpoint" (`README.md:109`) unless two
  before it hang: their timeouts use up the probe's (`FindsFirst` states the exact limit).
- `main` has a case for `ErrInvalidAPIKey` (`main.go:105`), which the library declares and
  never returns: a wrong key shows only when the ingester refuses the first batch.

## 5. The proofs

Every component that keeps state has a proof module. The theorems hold for every value
of the constants that the named assumptions of the models admit (`ClientAssumption`,
`LimiterAssumption`, `PoolAssumption`, `BuilderAssumption`, `PipelineAssumption`,
`TransportAssumption`, `DefaultAssumption`, `RunnerAssumption`, `MetricsAssumption`,
`ConfigAssumption`, `HostAssumption`, `DockerAssumption`, `MongoAssumption`): sizes,
limits and timeouts are natural numbers, those that the code defaults to something
positive are not 0, and kinds of goroutines, collectors or names do not overlap.
`SlotsForSlow` and `RetryQueueAssumption` serve properties that only TLC checks. Of the
inputs at startup only their types are assumed: strings of any kind, any number of env
files, instances and endpoints. The runs evaluate all of them. The bounds of the models
(`MaxCalls`, `MaxUsage` and the like) are constants too, so that they do not limit what
is proved.

| Theorem | States |
|---|---|
| **`ClientProofs`** | |
| `ClientTypeCorrect` | `Spec => []TypeOK`; the event queue never exceeds its capacity |
| `ClientRetryBounded` | `Spec => []RetryBounded` |
| `ClientDeferralNeverLoses` | `Spec => DeferralNeverLoses` |
| `ClientCloseDrains` | `Spec => []CloseDrains` |
| `ClientStopIsFinal` | `Spec => StopIsFinal` |
| `ClientEveryEventAccounted` | `Spec => []EveryEventAccounted` |
| `ClientBatchIdentity` | `Spec => []BatchIdentity` |
| `ClientCloseProgress` | `Spec => CloseProgress`: each step of a closing worker leaves it less to do |
| `ClientKeepsPromise` | `Spec => KeepsPromise`: `Client` implements `Delivery` |
| `ClientHasLife` | `Spec => Life!Spec`: `Client` implements `ClientLife` |
| **`ValueRateLimiterProofs`** | |
| `LimiterTypeCorrect`, `LimiterAtMostPerSecond`, `LimiterDenialJustified` | `Spec => []P` for the property in the name |
| `LimiterWindowAdvances` | `Spec => WindowAdvances`: the counted second never moves back |
| **`PipelineProofs`** | |
| `PipelineOneOwner` | `Spec => []OneOwner` |
| `PipelineLookup` | `Spec => [](LookupExact /\ SeriesOnce)`: the hash table finds what is in it and nothing else |
| `PipelineConserved` | `Spec => []PayloadConserved` |
| `PipelineRounding` | `Spec => []RoundingBounded` |
| **`HTTPTransportProofs`** | |
| `TransportNoMisattribution`, `TransportVersioned`, `TransportResync`, `TransportReplay` | `Spec => []P` for `NoMisattribution`, `DictionaryVersioned`, `ResyncSelfContained`, `ReplayOnlyUnanswered` |
| **`DefaultClientProofs`** | |
| `DefaultNoLeakedClient`, `DefaultHandover`, `DefaultNoCircularWait` | `Spec => []P` for `NoLeakedClient`, `HandoverAfterLastSend`, `NoCircularWait` |
| `DefaultClientsHaveLife` | `Spec => Life(c)!Spec` for every client `c`: each implements `ClientLife` |
| **`HostAgentProofs`** | |
| `HostIsRunner` | `HostSpec => Spec`: the composed agent only takes steps of the runner |
| `HostSlotsAccounted`, `HostQuietBeforeClose`, `HostTotalsCatchUp`, `HostStartsAsAsked` | `HostSpec => []P` for the property in the name |
| **`DockerCollectorProofs`** | |
| `DockerPrevPruned`, `DockerVisitsEach` | `Spec => []P` for the property in the name |
| `DockerCountedIsTraffic` | `Spec => []CountedIsTraffic` where no two containers share a service; `docker_replicas` shows that this is needed |
| **`MongoCollectorProofs`** | |
| `MongoNoLeakedConnection`, `MongoOverrunBounded`, `MongoReportedIsWork` | `Spec => []P` for the property in the name |

Hardly any of the properties is inductive. Each proof module starts with the invariant
that is; it has one lemma per part of it, and under it one step per action.

*Client.* Not even `TypeOK` is inductive: that `SendTransient` applies `RetryDelays`
within its domain needs the bound on attempts. The invariant is `TypeOK /\ RetryInv /\
CloseInv /\ AccountInv /\ IdentityInv /\ WorkerInv`:

- `OneCopy`: a batch is at most once in the retry queue, and not there while
  `sendPayload` works on it;
- `Counted`: the attempts that an item of the retry queue carries are exactly the
  times its batch was handed to the transport, deferrals or not, and are below the
  maximum; `RetryBounded` follows. It needs `OneCopy`, or a second copy of the
  batch could be sent and leave the first with a stale count;
- `Room`: while a resend is in progress the retry queue has a free place, the one it
  came from. With `Counted` this is `DeferralNeverLoses`, the argument that makes the
  ignored result in `deferForClientBackoff` harmless;
- `FreshIds` and `DrainInv`: an event that a goroutine still holds is not among those
  enqueued before the cancellation, and once the worker has seen the queue empty
  after it, none of those is in the queue or in the batch again. `CloseDrains`
  follows;
- `AccountInv`: every event is in one place, and no sequence holds it twice. The
  places are a family of sets that share out `1..calls` (`Shared`), and nearly every
  action moves some elements from one set of the family to another (`Moves`), which
  preserves that by one lemma (`MoveShares`); what remains per action is which events
  move from where to where;
- `IdentityInv`: `BatchIdentity` over every payload ever formed, open or closed, and
  the reason why the next is new in both parts: its number is above all others, and its
  events have not been batched.

The refinement follows from these: `PromiseInit` and `PromiseStep` show, action by
action, which step of `Delivery` it is or that it is a stutter. `Counted` gives the
abstract budget of attempts, `AccountInv` that batches are cut from the intake and
settled once, `DrainInv` what a closed client owes, and `WorkerInv` that nothing is sent
by a stopped one.

`CloseProgress` is the safety part of "Close returns". `Left` measures what a closing
worker still has to do: three steps for each queued event and each place of the retry
queue during the drain, three for each batch of the last pass. Every step of the worker
lowers it, and only an event that is enqueued during the drain raises it, by three. That
the last pass cannot go round for ever, although what it fails to send returns to the
queue it iterates over, is `PassInv`: `processLimit` bounds the pass, the batches still
to be looked at are the front of the retry queue, and none of them has been sent in this
pass. With `CloseCompletes`, which TLC checks, the only thing left to fairness is that a
worker which can move does. `OnceInv` (the first `Close` and only it waits inside
`once.Do`, and the worker is cancelled exactly when `once` has been entered) is what
`ClientHasLife` needs besides.

*Limiter.* `LimiterInv` adds to the types that the word is `Accurate` (the count in it
is the number of samples granted in its second, and later seconds have granted none)
and that a goroutine about to swap is `Entitled` (what it loaded did not forbid the
sample). The arithmetic of the packed word is isolated in `WordParts`, `WordPack` and
`SwappedParts`: only there does the mask appear, and only there is it shown that the
counter never carries into the second.

*Pipeline.* Four parts. `FlowInv`: an object is in the pool once or with one owner, and
outside the pool it holds the call of its borrower. `TableInv`: the links of a bucket
lead to older entries of the same hash, every entry is on the list of its hash, entries
have labels of their own, and no series has two; the exactness of `Find` follows.
`CountInv`: the payload under construction is `Faithful` (the lines of a series add up
to its sum, bear its latest time, and are one if it is aggregated; the samples are the
recorded ones, in order, with value, time and labels), an entry leads to a
line of its series (`Linked`), and until the table is full every line has an entry,
without which a series beyond the cap could be entered later and have two lines.
`SendInv`: payloads that are sent or wait are faithful *by themselves*. They mention no
event object, so a caller that refills one cannot change them, which is what the
copies of labels are for; the bound on the rounding error adds up from there.

*Transport.* `CodecInv`: ids number the series of a dictionary without gaps or doubles,
every header ever sent is a version of its session, and the current dictionary is the
last one of its session. `MessageInv`: bodies on their way, late ones too, and the
tables of the ingester know only definitions of such headers. An id then has one meaning
per session, in whatever order bodies arrive and are lost or forgotten, which is
`NoMisattribution`. For `TransportReplay`, `OwnerInv`: a batch is its client's alone, in
one call or among those to send again; and `RequestInv`: what the ingester accepts while
the sender waits is accepted by its answer too, a batch that is about to be sent has had
no such answer, and late requests are those that were given up.

*Default client.* `LockInv` is the mutual exclusion of the two-phase `RWMutex`,
`OnceInv` ties `once`, the worker and the goroutine in `Close` together, `RefInv` says
that only installed clients are reachable, and `ReplaceInv` that the client being
replaced is done or was abandoned when its successor is installed. Deadlock of a part of
the goroutines, which TLC's check of the whole would not see, is excluded by
`NoCircularWait`: `defaultMu` comes before `once`, and `once` before the worker, and
`WaitInv` says that whoever is inside `once.Do` is waiting for the worker, so that no
wait goes back up. `DefaultClientsHaveLife` needs `OnceInv` for the client in the hands
of each `Close`; together with `ClientHasLife` it puts the detailed client in place of
the reduced one.

*Agent.* `RunnerInv`: the semaphore counts the collections in progress, the channel's
queue holds exactly the collectors that wait, each once, and only while all slots are
taken, and goroutines exist only between the start and the wait for them. `HostIsRunner`
carries it over to the composed agent. `MetricsInv` relates a baseline to the counter
and to the first sample, so that a lost total delays a difference and does not lose it.
What is counted is what `applyTotal` has passed on; a batch that is lost later is the
client's matter.

`StartsAsAsked` compares what the agent does with two inputs that differ in what was
overridden. `StartupReads` lists what the startup looks at, so that inputs that agree on it
start alike; `LoadNamed` says what a named file comes to, alone; `Expanded` that an
expanded key is present exactly if it was, since `expandEnv` makes strings of strings;
`LastEnvFileWins` that of the env files only the last that defines a variable counts. The
search for nginx is a matter of counting: who is in time for an endpoint is in time for
those before (`InTimeEarlier`), and a request that leaves time for another after one
endpoint has hung is out of time only when two have (`LateAfterTwo`).

*Docker.* `Assigned` and `Shared`: the listed containers are shared out between the
workers and those still to do. `Backed`: what has been counted, and what the next total
would add, is at most the traffic there was, both if the total in the hands of a worker
is applied and if it is lost. A restart between reading and recording makes the second
part necessary.

*Mongo.* `StageInv`: within an instance the loop knows whether it has a connection and
its time is not yet up. `WorkInv`: a server has counted at most the previous report and
its work since, and a restart makes that less.

Two things about the way. Facts about recursive functions and folds (`Find`, sums over
lines, counts of occurrences) need induction over data, which the backends cannot
instantiate from the library's schemas; they are proved by the smallest counterexample
instead (`LeastNat`, from the well-foundedness of `<` on `Nat`), with a sum
characterised by a table of partial sums. And a proof attempt found one flaw in a
model: two guards of a `CASE` in `DefaultClient!Read` overlapped, so that TLA+ left open
which one was meant where TLC took the first. They are disjoint now.

Only model-checked: every liveness property (`CloseCompletes`, `RecoveryReachesAll`,
`CallReturns`, `SendReturns`, `AllReturn`, `ShutdownCompletes`, `KeepsCollecting`,
`CollectReturns`, `HealthyCollected`), since fairness and `ENABLED` are beyond the
prover. Every other property that a passing run checks is a theorem. That the doubling
loop in `Backoff` yields powers of two is checked for the code's own caps; the theorems
take any set of delays.

## 6. Order of the work

The client came first, since every other part feeds or serves it; then the limiter
and the transport, where interleavings and lost messages matter most; then the default
client, the builder with its pool, and the agent from its configuration to its
collectors. The abstract specifications came with the proofs, `Delivery` for what
the client does with events and `ClientLife` for what its owner sees. What could still be
added without a new kind of question: a measure like `Left` for the loops of the Docker
and Mongo collectors, whose ends TLC checks (`CollectReturns`, `HealthyCollected`).

## 7. What is not modelled

- *Formats*: labels, numbers, headers, URLs, unique ids (`labels.go`, `unique_id.go`,
  parts of `config.go` and `line_protocol_v4.go`), and the parsers of YAML, env files,
  `stub_status` and `/proc`: pure functions of strings, which the models replace by the
  classes of results that the code tells apart.
- *CPU percentages, memory, file systems, uptime*: arithmetic on one sample, without
  state; what a sample is compared with is in `HostMetrics`.
- *Session ids* (`line_protocol_v4.go:24`): the clock in nanoseconds is taken to differ
  between two dictionaries.
- *Log limiter, diagnostics of failed requests, verbose summaries*: decide only what
  is logged.
- *Load generator* (`cmd/statok-loadgen`): a development tool.
- *The ingester, the Docker daemon, MongoDB and its driver*: external; modelled from
  what the code expects of them.
