# A verification of the godemo RocketMQ client and its two services

This directory holds TLA+ models of the concurrent parts of `pkg/rocketmq-client`
and of the two services that use it, the TLC runs that check them on small
instances, and TLAPS proofs of the safety of every one of them for all values of the
constants. Paths are relative to the repository.

## The system

| Part | State it keeps | Operations | Talks to |
|---|---|---|---|
| **Shutdown gate** (`client.go`) | `processingCount`, `shutdownStarted`, channel `processingDone`, under `Client.mu` | `incrementProcessing`, `decrementProcessing`, `isShuttingDown`, `startShutdown`, `waitForProcessingComplete` | the wrapped handlers of `Subscribe` and `subscribeMessage`; the closers |
| **Client lifecycle** (`consumer.go`, `unified_api.go`, `health.go`, `client.go`, `message_manager`) | `producer`, `consumer`, `consumerStarted` (no lock) | `Subscribe*`, `closeWithContext`, `Close`, `MessageManager.Close`, `ShutdownConsumer` | the SDK's producers and consumers; the gate |
| **Request-response client** (`request_response.go`) | `requestMap` (sync.Map) of contexts with status and channel, `stopChan` | `Request`, `handleResponse`, cleanup goroutine, `WithTimeout`, `Close` | producer, response consumer |
| **Batch producer** (`batch_message.go`) | the batch, four channels, a ticker | `Send`, `Flush`, `Close`, goroutine `run` | producer; reader of `Errors()` |
| **DNS resolver** (`config.go`) | cache and `lastRefresh` under `cacheMutex` | `ResolveNameServers`, `ResolveWithRetry`, `ResolveName`, `ClearCache` | `Register`, `NewAdminClient`, `RefreshDNS`, the DNS |
| **Client registry** (`client.go`, `health.go`) | `clients`, `defaultName` under `clientsMu` | `Register`, `GetClient`, `Default`, `CloseAll`, `GracefulShutdown`, `GetAllHealthCheckFuncs`, `HealthCheck` | everything above |
| **Chat services** (`websocket-service`, `chat-service`) | map `responses` of channels, no lock | `SendRequest`, `handleResponse`, `handleRequest` | each other, through two topics |

Publish wrappers, topic creation, scripts and manifests keep no state of their own;
`PROJECT.json` lists them as not modelled, and of the admin client only how it is made.

What is hard in this code, and what each part owes:

- *Gate*: a delivery checks the flag, lets go of the lock and is admitted later; two
  functions close one channel. It owes: an exact count, one close, and quiet after a nil.
- *Lifecycle*: a second `Subscribe` overwrites the only reference to the first
  consumer; fields are read while they are written; a wait can time out. It owes: no
  teardown under a handler unless somebody gave up waiting, and a nil that says what was
  shut down.
- *Request-response*: reply, timeout, cleanup and `Close` meet at one channel, with a
  look and an act that are never one step; a copy by `WithTimeout` shares the map or
  not, depending on when it was made. It owes: no live request taken from the map, no
  closed channel to be found in it, and to every caller one true answer or an error.
- *Batch producer*: failed flushes keep the batch; sizes are counted in two ways; `run`
  can wait for the reader of its errors; a send may fail after the broker has stored the
  batch. It owes: nothing lost or reordered, and sending again until it is acknowledged.
- *Resolver*: failures are cached; a lookup outlives the clearing of the cache. It owes
  a bound on how old an address can be.
- *Registry*: a timed-out `GracefulShutdown` leaves goroutines and shut clients behind, a
  `MessageManager` closes a client that stays in the map, a `Shutdown` may fail and its
  error be overlooked; `Default` reads without the lock; names are resolved under it. It
  owes: no connection nobody can close, a final nil, open clients to whoever asks unless
  one of these left a closed one, and no call stuck.
- *Chat*: late answers, and answers delivered twice, meet the next request. It owes: each call its
  own answer or an error, and a map that holds only requests under way.

`PROJECT.json` lists the single hazards, at their lines, with the properties for each.

## Modules

`Drain.tla` is the abstract promise of a graceful shutdown: work begins while the gate
is open, a requested shutdown lets it finish, and the gate is drained exactly when the
last piece ends.

`CallService.tla` is the abstract promise of a request-response client to its callers:
each call ends once, with the answer that was given to this very call or with an error,
unless the process dies. Both `RequestResponse` and `ChatService` implement it.

`ProcessingGate.tla` is the gate with the wrapped handler around it. Each critical
section of `Client.mu` is one step: `PassCheck`/`RejectEarly` are `isShuttingDown`,
`Admit`/`RejectLate` are `incrementProcessing`, `Decrement` is the deferred
`decrementProcessing`. A handler takes the messages of its batch one at a time. A second
`close(processingDone)` sets `panicked`, which stops everything. The two wrapped handlers
differ only in what they answer for an error without ack: the constant `NoAck`.

`ClientLifecycle.tla` uses the gate by `INSTANCE`; every step of a handler or of a wait
is a step of the gate. The two assignments at the end of `Subscribe` are seen by other
goroutines in either order, since no lock orders them. The SDK is reduced to four states
per consumer; a `Shutdown` may fail wherever the code looks at, or ignores, its error.
A closer reads `c.consumer` in one step (`ReadOrderly`, `ReadForced`, `ReadClose`), shuts
down what it has read in a second and returns in a third, so a `Subscribe` may put another
consumer into the field in between.

`RequestResponse.tla` gives a step of its own to every access to the map, the status and
the channel. `select { case <-ch: default: close(ch) }` is two steps, because the
default branch is chosen before `close` runs. A panic in any goroutine stops all.
`WithTimeout` copies the `sync.Map` by value (as the map of Go 1.24 lets it): a copy made
before the first use has a map of its own, a later one shares the original's, and the
wait group stays behind in both cases. One copy is made, and requests and a `Close` may
go through it.

`BatchProducer.tla` has `run` and the calls of `Flush` share one program counter per
goroutine through `flush`. A batch of several topics never gets through `SendBatch`. The
channel of results is left out: writing to it never blocks and its overflow is dropped.
A send that returns an error may have reached the broker or not (`doubted`).
The batch has no lock, so `raced` notes when two goroutines begin to use it at once: `run`
and a `Flush`, or two calls of `Flush`. `Bytes` and `Without` are recursive functions over
the prefixes of a sequence, which TLC evaluates and tlapm can reason about.

`ChatService.tla` has the sequence of `SendRequest` calls that `main` makes, the
`handleResponse` goroutines, and the chat service with its retries. An operation on the
unlocked map begins and ends in different steps; when two overlap and one writes, the Go
runtime may or may not end the process, and the model allows both. The SDK delivers an
answer at least once: `Redeliver` hands one that has been delivered to a `handleResponse`
goroutine again, while the first may still be at it. A broker that stores a message twice
has the same effect as a request that is answered twice.

`ClientRegistry.tla` is the package's map of clients. What happens between a `Lock` and
its `Unlock` is several steps, because `Register` resolves names there and
`GracefulShutdown` waits there, and because `Default` looks without the lock: a read that
meets a write may crash the process or not. The inside of `closeWithContext` is
`ClientLifecycle`'s; here it begins and succeeds, times out, or fails with the producer or
only the consumer still up. The consumer is the one `Register` makes; those of `Subscribe`
are `ClientLifecycle`'s as well. `MessageManager.Close` is `BeginManagerClose` and
`ManagerCloses`, which take no lock and leave the client in the map. `errCh` and the channel of
a health check have the places the code gives them, so that a goroutine nobody listens
to any more could be seen to block.

`DNSResolver.tla` has a clock and two kinds of callers, `NewAdminClient`, which uses the
cache as it is, and `RefreshDNS`, which clears it first. An address is represented by the
time at which the DNS gave it, which is all the properties need. A call that sleeps or
waits for the DNS lets time pass; one that can run does not. `MaxLookup` is an assumption on the environment:
the code reads `ResolveTimeout` nowhere.

`MC*.tla` give the constants their values. `*_proofs.tla` hold the proofs.
Under "Slips" each module has copies of operations with a plausible mistake in them; no
specification uses them, and each one makes a named property fail (`PROJECT.json`,
"mutants").

## Runs

| Run | Instance | Shows |
|---|---|---|
| `ProcessingGate` | 3 deliveries (one without ack), 2 waiters, batches up to 2 | count exact, one close, quiet after a nil, ack only what was handled, refinement of `Drain`, no stuck shutdown |
| `ClientLifecycle` | 2 Subscribe calls, 1 delivery, 1 `closeWithContext`, 1 other closer | orderly close is quiet; what a nil says: producer shut, and the consumer in the field too unless it was subscribed since the closer began; a single consumer is shut; closers return |
| `CloseReachesEveryConsumer` | same, one graceful closer | **violated**: the first of two consumers outlives a graceful close |
| `ManagerCloseWaits` | same, one manager closer | **violated**: `MessageManager.Close` does not wait |
| `RequestResponse` | 1 request, through a copy by `WithTimeout`, answered up to twice, 2 handlers, a closer of each client, liveness | cleanup spares a live request; a closed channel cannot be found in the map; refinement of `CallService`; every call returns or the process has died |
| `LateReplyIgnored` | 1 request, 2 handlers, no copy, no closer | **violated**: a late reply panics on the closed channel |
| `BatchProducer` | 3 messages of 2 topics, batches of 2 messages or 5 bytes, 1 Flush | flow conserved, what a failed send may have stored is sent until acknowledged, reasons for refusal, everything settled, Close returns |
| `CloseSendsRemaining` | same without Flush | **violated**: accepted messages stay in the channel |
| `ChatService` | 2 requests in a row, 2 handlers, 1 retry, each answer delivered up to twice | nothing left behind, panic needs a late answer or one delivered twice, refinement of `CallService`, every request settles |
| `DNSResolver` | `NewAdminClient` and `RefreshDNS`, 3 names, 2 retries, 12 instants | bound on staleness, refresh is recent up to one lookup |
| `RetriesAskAgain` | same | **violated**: a name is given up after all its retries, for which the DNS was asked once |
| `ClientRegistry` | 3 `Register` for 2 names, 1 `GracefulShutdown`, 1 `CloseAll`, 1 user, one client of a `MessageManager`, one whose `Shutdown` may fail | no orphan, a final nil with every overlooked error accounted for, `Default` resolves, open clients, when the unlocked read is safe, nothing blocks |

**Bounds.** They are constants: `MaxBatch`, `MaxReplies`, `MaxReconsume`,
`MaxDeliveries`, `MaxRetries`, `MaxTime`, and the sizes of the sets of goroutines. Three deliveries let two be in
different places of the gate while the third decides; two waiters let one time out and
one drain. Two `Subscribe` calls are what both services make. One request meets cleanup,
a full channel (two replies), a second `Close` and one beside the cleanup of the other
client (two closers); that requests do not disturb each other is proved for any number of
them, and was checked for two without the copy before the runs were joined. Two deliveries
of an answer are what it takes for one goroutine to be sending when another has woken the
caller. Three
`Register` calls for two names let a name be refused while taken and registered again
when free, and two clients give one `GracefulShutdown` two goroutines, one of which may
fail while the other is late; that only one client's `Shutdown` may fail (`MayFail`), and only one
belongs to a `MessageManager` (`Managed`), keeps the run within two minutes. With all
three able to fail its safety was checked once by hand (2 200 000 states), as was that of
the batch producer with two calls of `Flush`, for which liveness takes too long.
Three messages suffice for a batch that is full by count, one full by bytes, one of two
topics and one that is refused. They do not fill the channel of `2 * BatchSize`: a
`Send` that finds it full returns an error and changes nothing, so no step is lost. In
`DNSResolver` the retries sleep 1 and 2 ticks against a `RefreshInterval` of 1, so that
a cached failure outlives the first retry and not the second; with the defaults (30 s
against 1+2+3 s) it outlives all of them. No run uses symmetry.

**Deadlock** is checked in `ProcessingGate`, where the SDK can always deliver. The other
systems really end: calls are made once and the clock is bounded.

**Fairness.** Gate: a goroutine inside a call goes on, user handlers return, because
those of this repository only send, under the producer's timeout; a `select` with a ready
case proceeds. Nothing makes the SDK deliver, a context expire or a shutdown begin.
Lifecycle: only closers that have begun go on, and their context has a deadline (five
seconds in `GracefulShutdown`); handlers may hang. Request-response: each goroutine that
can move does; strong fairness only on the cleanup goroutine leaving by `stopChan`, since
`select` picks among ready cases at random and so does not pass one over for ever.
Registry: a goroutine that can move does, because the DNS and the SDK return,
`closeWithContext` ends with its context and an `RWMutex` passes nobody over; no call need
be made and no context need end. Batch:
strong fairness on the three cases of `run`'s `select` for the same reason, on a send that
is tried again and again, and weak on the application's reading of `Errors()`; without
that reader `Close` does hang. Chat: goroutines that can move do, and the SDK delivers a
queued request to the chat service; no response need arrive.

**Findings** are the five violated runs: a leaked consumer, a close that does not
wait, a panic on a late reply, messages dropped by `BatchProducer.Close`, and retries of a
failed lookup that read the failure back from the cache instead of asking the DNS again.
Each quotes the comment or document it contradicts in `PROJECT.json`. One more divergence
has no run: `BatchBytes` is documented as the batch's maximum (`batch_message.go:14`),
while `AddMessage` (line 55) compares the batch's bytes plus the new body only, so topic,
tag and key of the last message may exceed it; this is arithmetic of one call, read off
the code. It is modelled as it is, in the operators that decide what is refused.

## Proofs

Each `X_proofs.tla` proves the safety of module `X` for all values of its constants that
satisfy its `ASSUME`, which TLC evaluates in every run. All sets are arbitrary, finite
where something is counted; so are batch sizes, retries, intervals and the list of names.
Every safety property that a passing run checks is a theorem.
In each an inductive invariant `IInv` (`ClientInv` in the lifecycle) was first checked by
TLC on the run's instance; every conjunct, or small group of them, has a lemma with one
step per action. What the theorems need beyond the properties themselves:

**Gate** (`GateTypeCorrect`, `GateCounts`, `GateClosesOnce`, `GateQuietAfterDrain`,
`GateAcksHandled`, `GateLosesNoWakeup`, `GateImplementsDrain`). That the channel is closed once needs that it
is closed exactly when a shutdown began and the count is zero (`ClosedIffDrained`); that
needs the count to be the number of calls in flight, so that it cannot reach zero twice
when nothing is admitted any more. Quiet after a nil needs that a waiter got its nil from
the closed channel (`NilNeedsClosed`). Acknowledgement needs that a call about to run has
a message left and that a success follows an emptied batch. Three lemmas on cardinalities
say what each move does to the set of calls in flight. From the same invariant no wakeup
is lost (`NoWakeupLost`): after a shutdown began the channel is closed exactly while nothing
is in flight, the safety core of the liveness property `ShutdownCompletes`.

**Lifecycle** (`LifecycleUsesGate`, `LifecycleTypeCorrect`, `LifecycleOrderlyCloseIsQuiet`,
`LifecycleSoleConsumerIsShut`, `LifecycleNilMeansTornDown`, `LifecycleAdmitsNothing`,
`LifecycleImplementsDrain`).
The gate is not proved again: every step of a client is a step of its gate or leaves it
alone (`LifecycleUsesGate`), so the gate's theorems, taken by `INSTANCE` with the graceful
closers for waiters, hold inside (`GateInside`), and a client with all its consumers and
closers implements `Drain`, by way of the gate (`LifecycleImplementsDrain`). An orderly teardown is quiet because it follows a nil
of the gate (`OrderlyHasNil`); a sole consumer is shut because the unlocked field can only
hold what some `Subscribe` wrote (`FieldIsSubscribers`). What a nil says of the consumer in
the field rests on what the closer read: as long as no later `Subscribe` has written the
field, it still holds the closer's target (`TargetIsCurrent`).

**Registry** (`RegistryTypeCorrect`, `RegistryOrphansNothing`, `RegistryNilMeansFinished`,
`RegistryDefaultResolves`, `RegistryHandsOutOpenClients`, `RegistryUnlockedReadIsSafe`,
`RegistryReportersNeverBlock`).
Whoever is under way with a write holds the lock (`LockHeld`), so the map does not change
between a check and the store it allows (`MapInOrder`), nor while a `GracefulShutdown`
waits for the goroutines it made for all of it (`ClosersInOrder`). A client that is handed
out while it is closing was left in the map by a failed `GracefulShutdown` or by its
`MessageManager`, because these alone make it turn messages away (`RejectingIsTarget`), and
nobody stops its producer before (`StoppedIsRejecting`). What a nil means needs an argument
about cardinalities: the errors in `errCh` are as many as the goroutines that have failed,
but for the one a `GracefulShutdown` returns (`ErrorsInOrder`), so after a nil every failed
client has its error there, and with none every client is shut down. From the same count a
goroutine nobody listens to always finds room, which is what the liveness property
`GoroutinesFinish`, left to TLC, hangs on.

**Request-response** (`RequestTypeCorrect`, `RequestWaitingIsRegistered`,
`RequestClosedIsUnfindable`, `RequestCleanupIsRight`, `RequestReceivedWasAccepted`,
`RequestImplementsService`). Cleanup decides on stale reads;
what saves it is that all it ever holds against a request stays true (`CleanupIsRight`).
Closed channels are unfindable because a key is in a map only between the `Store` and the
`Delete` of its own `Request` (`KeysInOrder`). The refinement needs that a received
response was put there by a handler (`ReceivedWasAccepted`).

**Chat** (`ChatTypeCorrect`, `ChatLeavesNothingBehind`, `ChatPanicNeedsLateAnswer`,
`ChatSeenWasSent`, `ChatImplementsService`). An answer that was delivered once is in one
place: one goroutine, or its channel (`OneAnswerOnePlace`); so a goroutine that still
carries it rules out that the `SendRequest` has received it and closed its channel, unless
the answer was delivered a second time.

**Resolver** (`ResolverTypeCorrect`, `ResolverStaleAtMost`, `ResolverRefreshIsRecent`). A lookup under way is at most `MaxLookup` old
(`LookupsAreShort`), so an entry was when it was stored (`EntriesAreRecent`), and what is
stored since a refresh began is no older than that (`StoredSinceRefresh`). Lemmas reduce the four
ways in which a name is settled to what they have in common (`Settles`).

**Batch producer** (`BatchTypeCorrect`, `BatchFlowConserved`, `BatchSendsUntilAcked`,
`RefusalsHaveReasons`), for any messages, topics, sizes, limits and number
of `Flush` calls. The library's induction theorems take an operator as a parameter, which
none of the provers can instantiate; here induction is stated for sets instead
(`SetInduction`, from the well-foundedness of `<` on the naturals, and `SeqInduction`).
With it a recursive function is shown to obey its recurrence (`LoopRuns`, `LoopsAgree`,
`LoopStays`), so the bytes of a batch grow by one message at an append (`BytesAppend`),
and what remains of the accepted messages when one more is refused is the same sequence
with that message cut out (`WithoutRemoves`); the latter needs that no message is accepted
twice (`AcceptedOnce`) and that only accepted ones travel on (`FromSend`). Conservation is
then one lemma per step that moves a message (`FlowSend`, `FlowReceive`, `FlowRetry`,
`FlowFlush`), and needs that one goroutine at a time uses the batch until `raced`
(`OneAtATime`). The proof failed at first because `raced` did not count two calls of
`Flush` that overlap; TLC shows the batch sent twice as soon as it is given two of them.
`BatchSendsUntilAcked` says what at-least-once means here: a message of a send that failed,
which the broker may have stored, is not given up but is among the unsent until it is
acknowledged, and no acknowledged one is sent again by `run`. It needs that such messages
are in the batch, which a failed flush does not clear (`DoubtedHeld`), and that what is
left of a sequence without repetitions has none (`WithoutRemains`). A refusal has its reason because a flush that made room for the
message in hand has emptied the batch or failed (`MadeRoom`).

The refinements (`GateImplementsDrain`, `LifecycleImplementsDrain`, `ChatImplementsService`,
`RequestImplementsService`) are the safety half, `Spec => Abstract!Spec`.

**Only model-checked.** Liveness under fairness is out of the prover's reach, as is
`ENABLED`: `ShutdownCompletes`, `ClosersReturn`, `CallsReturn`, `AcceptedIsSettled`,
`CloseTerminates`, `RequestsSettle`, `GoroutinesFinish`, and the fairness half of
`ImplementsDrain` and `ImplementsCallService`. Nothing else a passing run checks is without
a theorem.

## Plan

Written: all modules above. What could follow, in this order:

1. Subscribe options and `Unsubscribe` in the lifecycle, and the lifecycle's closers in
   place of the registry's abstract ones, if an instance small enough for both is found.
2. For the liveness properties, the measures that decrease (goroutines that have not ended,
   requests in the map) as action properties, which can be proved where fairness cannot.

## Not modelled, and why

- Message contents, topics' options, credentials, logging and metrics: no property tells
  them apart.
- The publish wrappers (`producer.go`, the publishing half of `unified_api.go`): one call of
  the SDK each, and no state. `handleSendError` uses a logger it has not checked
  (`unified_api.go:389`); one line, nothing for a model checker.
- The admin client beyond `NewAdminClient`: stubs, or one call of the SDK.
- `RefreshDNS` drops what it resolved, so `resolvedNameServers` stays as `Register` left it
  (`client.go:340`): there is no state to model.
- `GetCacheStats` (`config.go:421`) hands out its live `lastRefresh`; nothing reads it.
- The verdict of `HealthCheck`: what `SendSync` says of a client that is shut down is the
  SDK's, so it is left open. Likewise which error `GracefulShutdown` returns.
- The SDK, the broker and the DNS are modelled from how this code uses them, and only so.
- `Flush` racing with `run`, or with another `Flush`, on the batch's slice is noted in `raced`
  and excluded from `FlowIsConserved`: what unsynchronised goroutines do to a Go slice is
  undefined.
