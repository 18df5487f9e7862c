# offwork in TLA+

offwork runs Python functions on remote workers: a client submits a task
(function, arguments and the source it depends on), a broker keeps it, a worker
rebuilds the function, executes it and sends an envelope back, and the client's
`Result` handle returns the value or raises.  This directory holds a TLA+ model
of the parts of it whose correctness depends on the order in which several
coroutines, processes and connections take their steps, with TLC runs on small
instances and TLAPS proofs of the main safety properties.

All paths below are relative to `src/offwork/`.

## 1. Inventory

### Parts, their state and their operations

| part | source | state | operations |
|---|---|---|---|
| broker | `worker/backends/local.py` `_Broker` | `_tasks`, one `Queue(maxsize=1)` per result, heartbeats, progress, yields, cancelled tasks and schedules, throttles | one RPC request per `_dispatch`, `_stream_tasks` per listening connection, `_stream_results` per subscriber |
| local backend | `worker/backends/local.py` `LocalBackend` | one RPC connection with a lock, one listening connection | the `Backend` operations, one request each |
| worker loop | `worker/remote.py` `_worker_loop`, `serve` | `shutdown` event, `force` flag, set of pending handlers, semaphore | listen, accept, first signal, second signal, drain |
| task handler | `worker/remote.py` `_handle_task`, `_execute_task`, `_heartbeat_loop` | position in the coroutine, execution task, heartbeat task, progress and log callbacks | parse and verify, scheduled sleep, slot, checks, execution, settling, sending, throttle, re-enqueueing |
| execution | `worker/worker.py` | function cache, packages of the interpreter, executor threads | look up, build, `run`, `run_stream`, `run_with_policy` |
| result handle | `worker/result.py` | `_envelope`, last heartbeat, the coroutines awaiting it | `result`, `wait`, `check`, `cancel`, `progress`, `Stream` |
| streams | `worker.py` `run_stream`, `_execute_task`, `result.py` `Stream`, the yield operations of each backend | the stored values, a doorbell, the next position of each iteration | yield, store, ring, look, wait, drain |
| schedules | `worker/schedule.py`, end of `_execute_task` | the cancelled schedules at the broker, the cooldown of a function, the occurrence under way | re-enqueue, exhaust, cancel |
| WebSocket backend | `worker/backends/ws.py` | socket, reader task, pending requests, closed flag | connect, request with resending, read loop, drop, close |
| Redis, RabbitMQ backends | `worker/backends/redis.py`, `rabbitmq.py` | keys, queues of an external server | the `Backend` operations |
| sandbox | `worker/sandbox/` | a Docker container, one socket, a request lock; in the guest one interpreter | start, execute, stream, reconnect, stop |
| envelopes | `core/envelope.py`, `signing.py`, `clients.py`, `identity.py` | nonce cache, known clients in memory and in a file that other processes write | sign, verify, pin, revoke, approve |
| pairing | `core/pairing.py` | three slots at the broker, a deadline on each side, two key files | initiate, respond |
| graph and tracing | `graph/graph.py`, `analyzer.py`, `tracing.py` | the nodes registered, the call stack in a context variable, the calls recorded | register, discover, trace, refresh, `to_store` |
| store | `graph/store.py`, `reconstructor.py` | objects by hash, edges by hash, names | walk, subgraph, merge, delete, collect garbage, collect, reconstruct |
| codec | `core/task.py` | none | encode, decode |
| dependencies | `worker/deps.py`, `_venv.py` | the packages installed, temporary environments on disk | name, install, clean up |

### How they interact

* Client to broker and worker to broker: requests and answers over one
  connection per process, one at a time (`_request` holds a lock).  The broker
  handles each request without an await, so a request is atomic, and two
  requests of one process never overlap.
* Broker to worker: `_stream_tasks` pops a task and writes it to the worker's
  listening connection.  There is no acknowledgement.
* Worker loop to handler: one asyncio task per task, and a semaphore held from
  the first backend check to the end of the handler.
* Handler to heartbeat loop: the loop cancels the execution when the broker
  has the task among the cancelled ones; the handler ends the loop by an event
  and awaits it before it sends the envelope.
* A stream: the worker stores each value and then rings a doorbell that holds one
  message; the iteration looks, waits for the bell, looks again, and asks for the
  envelope when there is nothing.
* A schedule: the handler that has executed an occurrence submits the next one,
  signed by the worker; nothing else keeps the schedule alive.
* Client to worker, beside the broker: a submission carries the store of all that
  the function depends on; the worker's cache is keyed by the hashes in it.
* Registry file: the worker and the `offwork clients` commands each read it
  whole and write it whole.
* The coroutines of one handle (`result()`, `check()`, `cancel()`, a progress
  stream) share `_envelope` and poll the same slot, which a read empties.

### What is hard

The order of the steps of these coroutines; where a `CancelledError` lands; an
envelope that only one of several readers can get; tasks without
acknowledgement on a connection that breaks; a worker that dies at any await; a
cancellation racing the result; a timeout racing the answer; a semaphore slot
that every one of a dozen exits must give back.  `PROJECT.json` lists these
hazards one by one at their lines, with the properties that cover them.

### What makes each part correct

* broker: a task is in one place and in one copy; the slot keeps the first
  envelope; a broken connection loses no more than the one task that was
  written to it.
* worker: the concurrency limit is kept and slots are conserved; every task is
  answered or accounted for; a graceful shutdown answers what was accepted; a
  second signal ends everything without a leak.
* handle: it shows the worker's one verdict or a cancellation that was
  requested; waits end; a stall is reported only when there is one.
* streams: the consumer sees the yields in order, without gaps, then the end.
* schedules: the occurrences are one chain; limits are respected; a cancelled
  schedule ends; one that is not goes on.
* WebSocket backend: an answer reaches the attempt of the request it answers;
  every call ends.
* sandbox: the answer read belongs to the request sent.
* envelopes: a nonce is accepted once; a client keeps the key it was pinned with.
* pairing: a client saves a key only if the worker confirmed it.
* graph, store, codec: what runs on the worker is what the client's process would
  have run, with the arguments it was given.

## 2. Modules

| module | models | extends |
|---|---|---|
| `Broker` | the broker's requests, as operators used inside the steps of the other side; `_stream_tasks` as actions | community `SequencesExt` |
| `WorkerLoop` | accepting, signals, draining, death; the handler up to the start of its execution | `Broker` |
| `Execution` | attempts, heartbeat loop, settling, sending, interruption by a forced shutdown | `WorkerLoop` |
| `ClientHandle` | `submit`, `result()`, `check()`, `cancel()`, the progress stream on one handle | `Broker` |
| `TaskLifecycle` | their composition, fairness, every property | `Execution`, `ClientHandle` |
| `TaskPromise` | the abstract specification: what submitting a task promises | |
| `RequestPromise` | the abstract specification of a connection for requests: what one request may expect | |
| `WsBackend` | `WebSocketBackend`: concurrent requests on one socket, attempts, the read loop, dropping, `close()` | |
| `SerialLink` | the connections that carry one request at a time under a lock: the sandbox's and the local backend's | |
| `Streaming` | one stream over the store of each backend: `run_stream`, doorbell, `Stream._stream`, `cancel()`, progress, expiry | community `SequencesExt` |
| `StreamPromise` | the abstract specification of a stream | |
| `Pairing` | `initiate_pairing` and `respond_to_pairing` over three slots that expire | |
| `Envelopes` | signing keys, `verify_task_envelope`, the nonce cache, the known clients and their file | `Pairing` |
| `Schedules` | a recurring task from `submit_recurring` to its end, and the plain tasks beside it; every property of the three | `Envelopes` |
| `MCSchedules` | the scenarios of its run | `Schedules` |
| `CodeStore` | the content-addressed store and what reconstruction makes of it | community `Functions` |
| `CallStack` | the tracing: contexts, frames, the list behind the context variable | |
| `CodeGraph` | registration, discovery, the dependencies of a node, `to_store` | `CodeStore`, `CallStack` |
| `Analysis` | the programs whose calls the analyzer finds by its rules, read off their text | `CodeGraph` |
| `ArgCodec` | arguments to JSON and back, one level of a tree at a time | |
| `Codebase` | their composition with a worker's cache and packages; every property | `CodeGraph`, `ArgCodec` |
| `MCCodebase` | the programs of its runs; the codec applied to whole trees | `Codebase`, `Analysis` |
| `TaskLifecycleProofs` | typing; where the only copy of a task can be; two counts: the semaphore, the losses on dead connections | `TaskLifecycle`, `TLAPS` |
| `AnswerProofs` | the refinement of `TaskPromise`; ends without a verdict, graceful shutdown, the end of heartbeats, stalls | `TaskLifecycleProofs` |
| `WsProofs` | the safety of the WebSocket backend, its refinement of `RequestPromise` | `WsBackend`, `TLAPS` |
| `LinkProofs` | the safety of the serial connections, their refinement of `RequestPromise` | `SerialLink`, `TLAPS` |
| `StreamProofs` | the order of values, the doorbell, the last progress, the refinement of `StreamPromise` | `Streaming`, `TLAPS` |
| `TrustProofs` | the first pairing, the pinned key of a client | `Schedules`, `TLAPS` |
| `ScheduleProofs` | the nonce cache, the chain of occurrences, cancellation, the cooldown | `TrustProofs` |
| `CodeProofs` | the walk of a store, stores that are closed, what a worker's cache may serve, what the analysis finds, the codec, the tracing | `Codebase`, `Analysis`, `TLAPS` |

### Correspondence with the code

A step of the model is what a coroutine does between two awaits.  Each request
to the broker is one step of its caller: `_dispatch` has no await, and the
connection's lock keeps a second request of the same process from overlapping
(`SerialLink` models that lock and the connection; the core assumes that a
request gets its own answer, which holds as long as no coroutine is cancelled
in the middle of one: the run `rpc_cancelled` shows what happens then).
This is why reading the slot and caching the envelope in the handle (`Fetch`),
or seeding the slot and caching the seed (`SeedCancelled`), is one step: no
other coroutine of this client can put a request between them.

`pc[t]` is where the handler of task `t` is:

| pc | in `remote.py` |
|---|---|
| `idle` | no handler yet (queued or on the wire) |
| `reject` | sending the envelope of a refused payload, no slot (629-636) |
| `sleep` | `asyncio.sleep` until `scheduled_at` (640-647) |
| `wait` | `async with slot` (649) |
| `check`, `throttle` | `is_cancelled`, `check_throttle` (666-698) |
| `build` | `is_streaming` reconstructing the function (739-748) |
| `run`, `backoff` | `await exec_task`: inside the function, or in the retry delay of `run_with_policy` |
| `settle` | the `finally` block: draining logs, awaiting the heartbeat loop (779-795) |
| `send` | serialized, `send_result` under way (797-815) |
| `record` | `record_throttle` (819-821) |
| `done`, `lost` | ended having run its course; ended by an exception, an interruption or the process's death, or dropped with the connection |

`hb`, `aborting` and `doomed` are the running heartbeat loops, the executions
and the handlers with a `CancelledError` on its way.  A handler that awaits
`exec_task` is cancelled through it, which is why `Signal` distinguishes them.
`verdict` and `faults` are history variables: the status the worker put in the
slot, and how many backend calls have raised.

On the client side `waiter[t]` is the `result()` call, `canceller[t]` the
`cancel()` call with the kind of its timeout (`0`, seconds, `False`),
`watcher[t]` the progress stream (between its two requests: what the slot gave it),
`checking` the `check()` calls under way.
`Stall` is allowed only when a heartbeat has been observed, none is waiting to
be observed (`fresh`), and nothing in the system could still send one before
600 s have passed (`WaitStalls`): the model has no clock, and this is what the
ratio of 600 s to 5 s amounts to.

`stream[w]` is the broker's end of a listening connection.  After the worker's
end has gone the coroutine, blocked in `_tasks.get()`, does not know.  Its next
write may raise (the task is put back and the coroutine returns) or may be
taken by the operating system (the task is lost and the write after it raises).

`WsBackend` and `SerialLink` stand below the composition: they are about how a
request gets its answer, which the composition takes for granted.  Both implement
`RequestPromise`: a request is asked, executed no more often than it may be sent,
also after it has ended, and ends once, with its own answer or in a failure that
says nothing about whether it was executed.  `Tries` is 3 for the WebSocket
backend, 2 for a plain request to the sandbox, 1 for the rest.

In `WsBackend`, `pc[r]` is where the call `r` of `_request` awaits: the lock, the
handshake (`connect`), `ws.send`, the future (`wait`) or the backoff.  `ws.send` has
two points: before the frame is written (`send`) and while the transport takes it
(`drain`), when the request may already be executed and its call still be cancelled.
A broker that refuses the key ends the call without another attempt.  The ids
in `pending`, on the wire and in `executed` are pairs of a request and an
attempt, since each attempt has an id of its own.  A connection is a number;
`link` is the transport and `reader` the task of `_read_loop`.  `Drop` is
`_drop_connection`, as the end of that task calls it.  `Connected` waits for a
reader that `close()` has cancelled: that task runs in the next round of the
event loop, a handshake takes several.

In `SerialLink` the constant `Sandbox` chooses between `DockerSandbox` (drop the
connection on any failure or cancellation, send an idempotent request once more
after an error of the connection) and `LocalBackend` (drop it on an error of
the connection, keep it on a cancellation).  A frame is read in two awaits, its
length and its body; `torn` says that a cancelled request has left the body of
a frame behind.  Of the frames that precede the answer of a stream the model has what
can go wrong with them: the callback for a value raises (`YieldFails`), which drops the
connection like any failure.  The sandbox starts connected, as `start()` leaves it.

In `Streaming` a value is its index in the output of the generator, so that a
value read at the wrong place shows.  `backend` chooses how values are stored
and read (`LocalPut`/`RedisPut`/`RabbitPut` and the three `...Yields`), once per
behaviour.  `worker.pc` is where `run_stream` and `_execute_task` are (`running`,
`sending` and `ringing` inside `send_yield`, `flushing` the progress, `answering`, and
over RabbitMQ `answered` until the bell of the envelope is rung), `iter[c].pc` where `Stream._stream` is (`poll` and `wait` inside
`get_yields`, `deliver` in the loop over a batch, `check` and `took` around
`try_get_result`, `tail` for the last look).  `progress.task` is the send that
`flush()` would wait for, `missed` that the send of `flush()` itself has failed.  A read and the use of what it read
are two steps wherever an await lies between: `took` and `keep` hold an envelope
that another coroutine has overtaken.  `Forget` is a time to live that is reached.

In `Schedules` a tick is half a second, which is enough to tell a throttle from
what Redis makes of it in whole seconds.  `setup` is the scenario: tokens, clock
offset, cache size, store, slots, throttle, interval, limits and what may go
wrong.  A handler is a record that stays in `handlers` when it has ended, with
the way it ended; `held` is the moment in which a reader over RabbitMQ has taken
a flag out of its queue to put it back.  An envelope names its key, client,
public key and time; the task's identifier stands for the nonce, both being drawn
once for each envelope.  `Verdict` is the order of the checks of
`verify_task_envelope` and `CheckAndAdd` what the nonce cache becomes, also when
a later check refuses the envelope.  `Pairing` runs before the worker serves, as
the command line does it, and its keys are those `RootToken` falls back on.

In `CodeGraph`, `CallStack` and `Codebase` a program is data (`prog`): which
functions and classes there are, what the syntax of each version of a body
shows, what it really calls.  Source text is a version number, a hash a pair of
name and version, and the module that `reconstruct` writes is the namespace it
defines when it is executed: the last definition of a name wins.  `node` maps a
registered function to the version that was captured; the dependencies of a node
are computed from it as the analyzer does, by simple names.  In `CallStack` an
asyncio task is a context with a reference to a list object in `heap`, so that
sharing a list between contexts, and isolating a copy, is as in the code.
`Submit` takes the promise down (`sent`: what the process would call, in the
version it has), and `RunsWhatWasSent` compares it with what the worker executed.
A task looks its function up twice, in `is_streaming` and in `run`; between a miss
and `Build` it awaits `pip`, one module after the other, while other tasks go on.
`Closure` is the walk of `Store.walk` and of every other traversal in `graph/`: what is
reached in as many steps as there are things with successors, and one more; it is a
recursive function, so that proofs can speak of it.
The codec calls itself on the parts of a value.  `ArgCodec` writes these calls as the
constants `ToJsonable` and `Resolve` and the functions themselves as `Encoding` and
`Decoding`; the runs give the two constants these bodies (`MCToJsonable`, `MCResolve`),
which closes the recursion, and `CodecAssumption` says that they are so for the values in
question, so that proofs can use it.  `Carried` and `Survives`, what is meant to
arrive, are tied in the same way.
`ArgCodec` follows the type tests of the encoder in their order and the sentinels
of the decoder in theirs.

## 3. Runs

| run | configuration | properties |
|---|---|---|
| `lifecycle` | 2 tasks (one delayed and refusable, one throttled and cancellable), 1 worker with 1 slot, 1 retry, 2 signals, 1 crash | `TypeOK`, `SlotAccounting`, `NoSilentLoss`, `DrainAnswersAll`, `NoHeartbeatAfterResult` |
| `redelivery` | 2 tasks, 2 workers, 1 signal each, 1 crash, 1 broken listening connection | `AtMostOneCopy`, `OneLossPerConnection` |
| `handle` | 1 task, every coroutine and every `cancel()` mode, 1 retry, 1 signal, 1 crash, 1 fault of any kind | `StallIsReal`, `PromiseKept` |
| `liveness` | 2 tasks, 1 slot, 1 signal, 1 crash, 1 failing check, one task cancellable without timeout | `EveryWaitReturns`, `ChecksSurface`, `RunningCancelConfirmed`, `DrainEnds`, `CrashEndsWait` |
| `cancelled_wait` | 1 task, `result()` and `cancel(10)` | `CancelledWaitReturns`, violated |
| `ws_requests` | 2 requests, one with a timeout, one cancellable, `close()`, 1 fault | `LastAttemptAnswered`, `PendingIsWatched`, `OneConnection`, `CallsKept`, `DropFailsOwn`, `EveryCallEnds` |
| `sandbox_link` | 3 requests and 1 stream on the sandbox's socket, two cancellable, 1 fault | `OwnAnswer`, `QuietBetweenRequests`, `LinkKept`, `EveryRequestEnds` |
| `rpc_cancelled` | the same on the local backend's connection, no fault | `OwnAnswer`, violated |
| `streaming` | 1 iteration of a stream of up to 2 values over each store, 2 progress reports, 1 failing send of a value or of progress, 1 expiry, `cancel()` with and without timeout | `InOrder`, `NoLostWakeup`, `FinalProgress`, `StreamKept`, `EveryIterationEnds` |
| `schedules` | 1 schedule under each of 23 scenarios: limits, cancellation, code that cannot be rebuilt, throttle, duplicates, clocks, crashes, identities, administrator, pairing | `OneChain`, `StopsAfterCancel`, `AcceptedOnce`, `OnePin`, `PairedMeansConfirmed`, `CooldownKept`, `ScheduleGoesOn` |
| `codebase` | 15 programs, each with its calls, edits, restarts and submissions | `RunsWhatWasSent`, `VersionsRun`, `ArgsArrive`, `StoreIsClosed` |
| `stale_stack` | a traced coroutine that calls two others | `EdgesAreCalls`, violated |

What they show:

* `SlotAccounting`: free slots plus handlers inside `async with slot` is the
  concurrency, through every early return and every place an interruption can
  land.
* `NoSilentLoss`, `DrainAnswersAll`: the only handler that ends of itself
  without an envelope is the one that skipped a cancelled task; a task is lost on the
  way to a worker that no longer listens, by the failure of the call that sends its
  result, or by the second signal or the death of the worker that has it; a worker that
  stops after one signal has answered whatever it had accepted.
* `NoHeartbeatAfterResult`: no heartbeat is sent for a task whose result can be
  read.  This is what the event and the await in the `finally` block are for.
* `AtMostOneCopy`, `OneLossPerConnection`: the put-back neither duplicates a
  task nor, except for one write to a connection that is already dead, loses it.
* `StallIsReal`: `TaskStalled` never hits a task that waits in the queue, for
  its time or for a slot, nor one that is executing normally.
* `PromiseKept`: the composition implements `TaskPromise`.
* `LastAttemptAnswered`, `PendingIsWatched`: no answer is taken for that of
  another attempt, and what waits in `_pending` has a reader that will resolve
  it or fail it.
* `OneConnection`, `DropFailsOwn`: `_drop_connection` fails every pending future
  without asking which connection it belongs to; this is right because there is
  only one connection at a time, whatever the requests and `close()` do.
* `OwnAnswer`, `QuietBetweenRequests`: the sandbox gives the lock back only with
  a connection that carries nothing, or none.
* `CallsKept`, `LinkKept`: both kinds of connection implement `RequestPromise`.  A
  stream is executed once, whatever breaks, a plain request to the guest twice at
  most, an operation over the WebSocket three times at most.
* `InOrder`, `StreamKept`: position and value agree from the `yield` of the worker
  to the `async for` of the client over three ways of storing them; the end is
  told after the last value, whatever overtakes what.
* `NoLostWakeup`: a value that is stored is never waited for with a silent bell.
* `FinalProgress`: the progress shown does not go back, and the last state reported is
  the one that stays, whichever of the throttled sends fail.  The exceptions are the
  connection pool of Redis, and a failure of the send of `flush()` itself, which `_send`
  swallows like the others (`worker/remote.py:504`): the result then goes out with an
  older state shown.
* `OneChain`, `StopsAfterCancel`: re-enqueueing neither forks nor overshoots; a
  cancelled schedule starts one more occurrence at most, over RabbitMQ one more for
  each look at the flag while `cancel()` has it in its hands.
* `AcceptedOnce`: no order of clock skew, eviction and duplicates makes the nonce
  cache forget an envelope that is still fresh, unless it overflows.  Within one life
  of the worker: a restart forgets the nonces.
* `OnePin`: a client's key stays the one it was pinned with over restarts, replaced
  identities and an administrator's writes of the whole file.
* `PairedMeansConfirmed`: in a first pairing no client saves a key the worker did
  not confirm.
* `CooldownKept`: a check at the start and a record at the end leave no gap with
  one slot.
* `RunsWhatWasSent`: discovery, capture, the store, the cache and reconstruction
  together put the right version of everything that is called where the worker
  looks for it.
* `VersionsRun`: whichever entry of the cache serves a task, and however names clash,
  each piece of code it runs is of its own submission, in the version the process had
  then.  The exception is a helper that is not traced and was redefined after its
  capture: it runs stale, in the version of the capture, the same in all tasks of one
  process (section 4).
* `ArgsArrive`: arguments survive the codec, nested as they may be, except for what
  `Survives` names.
* `StoreIsClosed`: pruning by names never cuts off what a name reaches by hashes.  (That
  the pieces can be put together as well is `RunsWhatWasSent`.)
* the liveness properties: see their comments at their definitions.

### Bounds, and why they are enough

`Retries`, `MaxSignals`, `MaxCrashes`, `MaxFaults` and the sets of tasks with a
special trait are constants; there is no state constraint, and the state space
is finite because a task is submitted once.  Two tasks and one slot make the
semaphore matter; two signals are the two shutdown phases, a third does what
the second did; two workers are the least for which "some other listener gets
it" means something.  One fault is enough for each property because a fault
affects one handler; the proved properties hold for any number.  In
`WsBackend` two requests are the least with one at the lock while the other
connects; attempts are used up by timeouts as well as by faults, so that all
three of a request occur with one broken connection.  In `SerialLink` three
requests are one that leaves something behind, one that would read it, and one
that waits behind both.

In `Streaming` two values are the least for which order, a gap and a tail after
the envelope exist; with one of each fault the iteration meets it before, between
and after them.  A second iteration would share the bell, and `NoLostWakeup` is
about one.  In `Schedules` three ticks (`RunFor`) hold three occurrences at the
shortest interval and let an envelope grow stale (`Skew` is one tick, the nonces are
kept for two, the proportion of the defaults); the cache of one entry overflows,
the one of ten does not.  `MaxQueued` bounds the submissions of a forked chain and
is reached by none of the scenarios.  `MaxSessions` is one, because the property
of the pairing is about the first; a second session reads what the first left in the
slots (section 6).  In `Codebase` each program is the smallest that has the
construct it is about, with one or two submissions.  Each run finishes in under
two minutes.

`CHECK_DEADLOCK` is off: once all tasks are submitted, answered and read, and
the signals are used up, the program really has nothing left to do.

### Fairness

`FairSpec` assumes weak fairness of each handler, heartbeat loop, waiting
coroutine and of the delivery to each live connection: the asyncio event loop
resumes whatever is ready, and a request is answered.  User functions are
assumed to end, the only thing that is not the event loop's doing; a task that
runs for ever makes any wait for it last for ever.  Nothing is assumed about
signals, crashes, faults, what the user calls, executor threads or the end of a
cooldown.  Strong fairness is not needed: the one place where a step can be
disabled again, a waiter for the semaphore, is fair in the code too (the
semaphore is FIFO), and with the finite number of tasks weak fairness suffices.

`WsFairSpec` and `LinkFairSpec` assume that coroutines that are ready go on, that
a broken connection is noticed (pings, or the read that fails), and that the
peer answers over a connection that stays up.  Timeouts, cancellations, faults
and `close()` are never assumed.

`StreamFairSpec` assumes that sends arrive, that polls end by their timeout and that
the client goes on iterating; not that the generator yields, ends, or is cancelled.
`Schedules` assumes that handlers, listener and the clock go on and that a worker is
started again after a crash (without one nothing goes on); nobody has to cancel.

## 4. Disagreements between texts and code

* `cancelled_wait`: `docs/TECHNICAL_OVERVIEW.md:557` says the client "receives
  `TaskCancelled` when awaiting a cancelled task".  `_do_cancel` and `result()`
  poll the same slot; when `cancel()` reads the envelope first, the `result()`
  call keeps polling a slot that stays empty.
* `rpc_cancelled`: `_request` of `worker/backends/local.py` sends and receives
  under a lock so that a request reads its own answer, but keeps the connection
  when it is cancelled in between: the next request reads the answer of the
  cancelled one.  The sandbox's copy of the same code drops the connection for
  this very reason (`docker.py:376`).
* `stale_stack`: `docs/TECHNICAL_OVERVIEW.md` (6, Runtime tracing) says that
  caller-callee edges are recorded.  `_ensure_isolated_stack`
  (`graph/tracing.py:303`) gives the context a copy of the list that nothing takes
  away again, so a coroutine that has returned is still recorded as the caller of
  what is called next; with a call in the other direction the submission carries a
  cycle and cannot be rebuilt.

Further disagreements met while modelling, without a run of their own:

* `worker/backends/ws.py:253` says "We don't replay mutating ops automatically";
  `_request` sends any operation again, under a new id, after an error of the
  connection or a timeout.  The duplicates of `Schedules` are such submissions.
* The comment at `worker/result.py:340` says that after `cancel(timeout=0)` any
  later `await result` gets `TaskCancelled`.  When the worker's envelope is already in
  the slot the seed is dropped there and only cached in the handle, where another
  coroutine overwrites it.
* `worker/backends/redis.py:137` takes the index in the list for the position in the
  stream.  A list that expired while the generator was quiet starts again at 0:
  values are then skipped without a word.  `InOrder` leaves this case out.
* `core/task.py:50` says that enumerations are asked for before `str`, but strings
  have been let through by then: a member of an enumeration of strings arrives as a
  plain string.  More does not arrive as it was, without a text that says it would:
  a dictionary whose single key is a sentinel arrives as what the sentinel means, a
  concrete path as a pure one, what belongs to a class that the store does not hold as
  a substitute; an instance of a class derived from a standard type arrives as the
  standard type; a `defaultdict` keeps its factory only if that is one of ten builtins
  and has none otherwise (`_encode_factory`); an object with a `__dict__` loses what it
  keeps in slots or elsewhere; a zone becomes an offset, a fold is forgotten, and a
  `timedelta` has the digits of a float.  `Survives` in `ArgCodec` is this list.
* Late iterations of a stream: `Stream`'s docstring (`worker/result.py:617-619`),
  `Backend.send_yield` (`worker/backends/base.py:112-114`), `docs/async-gen.md:154` and
  `docs/FEATURES.md:239` say that a consumer that starts late sees only the values
  yielded from that point on.  `Stream._stream` starts every iteration at
  `next_seq = 0`, over stores that a read does not empty: a late iteration gets all
  values from the first one on, as long as they have not expired.  `InOrder` states
  what the code does, for iterations started at any time.
* `graph/analyzer.py:454` finds a callee by its simple name, and the rebuilt module is
  flat: of two registered functions of one name the wrong one may be sent or run
  (`RunsWhatWasSent` asks for names without namesakes).
* `graph/graph.py:422`: a helper that was captured once and redefined later is sent in
  its old version unless it is traced.  `RunsWhatWasSent` leaves such helpers out,
  `VersionsRun` says which version of them runs.
* The cache of a worker is keyed by the set of hashes (`worker/worker.py`): two
  functions with the same set, such as two that call each other, share an entry, and
  the second is run as the first.

## 5. Proofs

`tlapm` checks every theorem for arbitrary sets of tasks, workers, requests and
callers and any values of the other constants, under the assumptions named in
the modules: `BrokerAssumption`, `WorkerAssumption` and `ClientAssumption`
(finite sets, at least one slot, the special tasks are tasks), `WsAssumption`
and `LinkAssumption` (finite sets, bounds are naturals, nobody is called
`None`), `StreamAssumption` and `NoneAssumption` (the three backends, bounds are
naturals, `None` is neither a number nor an envelope), `ScheduleAssumption` and
`EnvelopeAssumption` (a scenario's settings are numbers; a nonce is kept for at
least twice the allowed skew, as by default), and `ProgramAssumption` (a program has
finitely many functions with one version or more, and what is registered, edited,
submitted or in a closure is among them), and `CodecAssumption` (an argument is a
finite tree, on which the codec does what its code says of a node and its parts).
TLC evaluates each of them in the runs.  No fairness is used, and no value of
a bound.

Of the lifecycle:

* `TypeCorrect` (`TypeOK`).  Typing is not inductive alone: a handler past the
  poll indexes the semaphores with its owner, so `HandlerInv` is carried along:
  a handler in a pending state has a worker, an execution or interruption under
  way belongs to a pending handler.
* `OneCopy` (`AtMostOneCopy`).  `Deliver` keeps the property only if a task in
  the queue is nowhere on a wire, and `Accept` only if a task on a wire has no
  handler yet; `Submit` only if an unsubmitted task is nowhere.  `CopyInv` says
  so, task by task; queues without repetition are closed under `Head`, `Tail`
  and the put-back by small lemmas about sequences.
* `SlotsAccounted` (`SlotAccounting`).  The invariant is a cardinality: each
  action either moves one task into or out of `Holders(w)` while it changes
  `free[w]` by one, or leaves both alone; `Crash` resets both.
* `LossesBounded` (`OneLossPerConnection`).  Only `DeliverToDeadPeer` makes a stray
  task, and it adds its connection to those whose end the broker has met; every
  other action leaves each idle task where it was or puts it in the queue or on a
  wire.
* `KeepsPromise` (`PromiseKept`).  `VerdictInv` says that a handler that can
  still send has not sent, and that what the slot holds is the verdict or the
  seed of a requested cancellation.  With it each client step maps to `See`,
  `Open`, `RequestCancel` or a stutter, each worker step to `Answer`, `Abandon`
  or a stutter.

* `NothingLostSilently` (`NoSilentLoss`), `GracefulDrain` (`DrainAnswersAll`),
  `HeartbeatsEndFirst` (`NoHeartbeatAfterResult`).  None of the three is
  inductive: a handler is lost because it was interrupted, and only the second
  signal of its own worker interrupts it.  `Answered(t)` carries that link from
  `doomed` to `lost` (`Loss`), the attempt counter at each point of the handler
  (`Phase`), that whatever is under way belongs to a live worker (`Live`), and
  where a heartbeat loop can still run (`Beating`).
* `StallsAreReal` (`StallIsReal`).  `Beaten(t)` adds what a heartbeat proves: an
  attempt was made, an execution without its loop was cancelled, a result that
  is not in its slot is in the handle.

Of the connections:

* `WsTypeCorrect`, `AnswersReachTheirAttempt` (`LastAttemptAnswered`),
  `PendingAlwaysWatched` (`PendingIsWatched`), `OneConnectionAtATime`
  (`OneConnection`), `DropsFailTheirOwn` (`DropFailsOwn`).  The difficulty is
  that `_drop_connection` acts on every entry of `_pending`, whichever
  connection it was sent on.  `WsInv` says that at most one connection has a
  reader, that the one being read is `_ws`, and that a connection is made only while there is none (`ConnInv`);
  that an unresolved entry was sent on a connection with a reader
  (`PendingInv`); that an answer under way or read is to an id that was
  executed, and is that of its reader's last attempt (`AnswerInv`); and it
  counts connections: no more were opened than broke or were closed, plus the
  current one if it is up (`CountInv`), without which the next connection would
  not be typed.
* `WsImplementsPromise` (`CallsKept`).  A call returns only in `Receive`, when its
  future holds an answer; `AnswerInv` has it that this answer is to an id the broker
  executed.  `Execute` is the promise's `Run`, also for calls that have ended: an
  id names one of the three attempts, and `UpInv` says that what is on its way to
  the broker is of a call that was made.
* `LinkTypeCorrect` (`LinkTypeOK`) for both kinds of serial connection;
  `RequestsReadTheirAnswer` (`OwnAnswer`), `QuietWhenUnlocked`
  (`QuietBetweenRequests`), `StreamsAreNotRepeated` (`StreamsRunOnce`) and
  `LinkImplementsPromise` (`LinkKept`) under `Sandbox \/ Doomed = {}`: the sandbox
  drops its connection when a request is cancelled, the local backend keeps it, and
  `RpcCancelled` shows what comes of that.  `TrafficInv` says what the connection
  carries at each point of the request that holds the lock.  `SendingInv` counts: the
  executions of a request and the connections on which it waits to be read are no
  more than the times it was written, of which the second belongs to a plain request
  of the sandbox.  `ServedInv` says that what is executed or answered has been
  executed at least once; with `TrafficInv` the answer read is to an execution of this
  request, which is what the promise's `Return` asks for.

The lifecycle modules take it that each request of the local backend gets its
own answer and is executed once.  `LinkImplementsPromise` proves it when no request is
cancelled; where one is, the finding of `RpcCancelled` applies, and the lifecycle model
says nothing.

Of trust, for any scenarios and bounds (`TrustProofs`):

* `PairedKeysConfirmed` (`PairedMeansConfirmed`).  A client that derives a key has
  read a confirmation, but not the worker's state.  `SlotInv` says where whatever is
  in the slots came from: the response in the slot is that of the responder, whose
  own state is the witness of what it sent; the worker is about to confirm only the
  secret of this responder; a confirmation in the slot has been recorded.
  `FreshInv` says that before the client starts there is none.  `KeepsPairing` shows
  that the system over it implements the pairing, so the invariant carries over.
* `KeyPinned` (`OnePin`).  The pin is in three places: the worker's memory, the file
  and the copy of an administrator's process, each lost or overwritten by another.
  `CopiesAgree` says that the memory of a running worker and the file have the same
  key or none, and that a copy that has a key has that of the file;
  `AcceptedPinned` that the file has the key of whatever was accepted; `EnvelopesGenuine` that an envelope carries the
  name of the role that signed it.

The argument runs `Init => IInv`, `IInv /\ [Next]_vars => IInv'` with one step
per action, and a temporal conclusion; helper lemmas state what groups of
actions leave unchanged, so that each proof looks only at the actions that
matter to it.

Of streams, over any of the three stores, with any number of iterations, values,
failing sends and expiries (`StreamProofs`):

* `LastProgressShown` (`FinalProgress`).  `flush()` waits for one task only, the newest;
  that this is enough is `ProgressInv`: over one channel the sends end in the order in
  which they were made, so the newest is the last of those under way, and none is left
  when it is over.
* `ValuesInOrder` (`InOrder`), `WakeupsKept` (`NoLostWakeup`).  What a read returns is a condition on the store, which is why
  each `...Yields` is first shown to return all that is held from a position on, or
  nothing (`YieldsShape`).  `StoreInv`
  says that the value at a position is the one generated there, and that expiry
  empties the list of Redis or the first of RabbitMQ's cells; `WorkerInv` that the worker's own count is what it
  has stored, before and after the write; `IterInv` that a batch under way goes on
  exactly where the iteration stands; `EnvelopeInv` that
  whatever waits in the slot, in the handle or in a coroutine that was overtaken is
  the worker's envelope or the seed of a cancellation.  A wake-up is lost only if an
  iteration waits with something held, nothing in the bell and nobody about to ring.
* `StreamImplementsPromise` (`StreamKept`).  `StoreYield` maps to `Emit`, `Finish` and
  `Interrupt` to `Close`, `Deliver` to `Receive`, `DrainTail` to `Tell`, the rest to
  the cancellation, the expiry or a stutter.  `Tell` is where the argument is: the tail is
  empty and the envelope is genuine, so that the iteration has what was stored.

Of schedules, for any scenarios and bounds (`ScheduleProofs`, over the invariants of
`TrustProofs`):

* `AcceptsOnce` (`AcceptedOnce`).  `CacheInv` says that the cache is in the order of
  its times, each nonce once, all of them of envelopes that were sent.  With it an
  eviction removes a prefix (`EvictsSome`), and `FreshKept` is inductive: the nonce
  of an accepted envelope is in the cache with no more entries behind it than were
  recorded since, until its envelope is stale or as many others as there is room for
  came in.  `2 * Skew <= NonceTtl` is what the first of the two needs: an envelope
  from a fast clock is fresh for twice the skew.
* `ChainIsOne` (`OneChain`).  An identifier is of one envelope (`IdentityInv`), which
  is in one place where nothing is duplicated (`PlaceInv`), or accepted once by the
  theorem before where signing and a cache with room for all catch the duplicates:
  `TaskOnce`.  Then only the last number has not been carried on (`ChainInv`), so
  that a new number is new; `CountInv` counts down what is left of `max_runs`.
* `CancelStops` (`StopsAfterCancel`).  After `cancel()` an occurrence can start if it is
  past its last look at the flag or has not come to it: `Pending`.  There is one such
  envelope because the chain has one tip; its start uses it up, and only an occurrence
  that looked while another reader held the flag makes another (`StopInv`).
* `CooldownHolds` (`CooldownKept`), an action property: with every cooldown as long as
  the next, the one recorded last ends last (`CooldownInv`), so the one time the broker
  keeps stands for all of them.

Of the code that travels, for any program, codec and number of tasks (`CodeProofs`):

* `ClosureIsLeast`, a lemma, says of the walk what everything else needs: its result
  holds the roots, is closed under the edges, and is within every set that is.  The
  induction on the number of steps goes through the set of the numbers for which the
  claim holds (`NatSetInduction`), since the rule of the library takes an operator; the
  walk stops because each step but the last adds a node that has edges (`StagesGrow`).
* `StoreCanBeRebuilt` (`StoreIsClosed`).  A store is `Closed` if every edge and every
  name leads to one of its objects.  `Merge`, `DelRef`, `Subgraph` and `Gc` keep it, the
  last two because what they keep is closed under the edges; `to_store` makes such a store
  because its tree is closed under dependencies and, or it would have raised
  `KeyError`, registered (`ToStoreClosed`).
* `RunsOnlyWhatWasSent` (`VersionsRun`).  `CacheInv` says that an entry holds pieces of
  its own key, each under its own name: `collect` finds only what the name reaches, and
  `reconstruct` adds nothing.  So a hit can only serve hashes of the task's own store;
  that these are of the versions of the submission is `GraphInv`: a traced function is
  registered again with every edit.  For what is captured once and never again
  `HelperInv` says that within one life of the process its version does not change, so
  that all the stores sent in that life agree on it.
* `WhatWasSentRuns` turns this around: nothing that was sent is missing.  `WholeInv` says
  that an entry has a name for each piece of its key (`collect` leaves none out, since
  each object goes by its own name, `OwnNames`) and calls a function of that key; where
  names are clear a name has one piece (`ClearName`).  `AnalysisSuffices` follows: while
  `AnalysisComplete` holds, that is while every function a task could call has a piece in
  its key, `RunsWhatWasSent` holds.
* `AnalyzableProgramsRun` (`RunsWhatWasSent`), for the programs that are `Analyzable`:
  every call is by a form that the analyzer has a rule for (a name in the module, a method
  of `self`, a constructor, an annotated variable, the only method of its name, a closure,
  a class that goes along with another), all definitions are executed, bases before the
  classes derived from them, and nothing is submitted inside a class statement.  It is a
  condition on the text of a program, all of the runs' programs meet it
  (`ScenariosAnalyzable`, which TLC evaluates), and calls through a value only, which no
  analyzer finds, are exempt (`hidden`) unless the tracing has met them.  The proof
  shows that analysis is complete and applies `AnalysisSuffices`: what the process would
  call (`Promised`) is the least set closed under the uses, so it is enough that the
  nodes in the walk of a submission are closed under them.  One lemma per rule says that
  the function called is registered when the graph is refreshed and is a dependency of its
  caller; `KnownInv` keeps that whatever is traced and loaded is registered.
* `ArgumentsArrive` (`ArgsArrive`).  Induction over trees is out of reach as a rule, but not
  as an argument: of the arguments that would arrive changed, one has the least depth
  (the natural numbers are well ordered), all its parts arrive, and a case for each branch
  of the encoder, in the order of its type tests, shows that the decoder gives it back
  (`EncodesByPart`, `DecodesByPart`).  `ArgsInv` carries the argument through the task.
* `TracedCallsAreCalls` is what holds of `EdgesAreCalls`, which in general does not: without
  traced coroutines every recorded edge is a call.  `StackInv` says that a single context
  has frames, that the list it refers to is the list of their functions, and that all
  other lists that are referred to are empty; a coroutine isolates a copy of that
  list, which outlives it, and this is where the invariant would fail (`stale_stack`).

Every safety property that a passing run checks is now a theorem, `RunsWhatWasSent` for
analyzable programs.  Model-checked only: the liveness properties, which are out of the
prover's reach, and that the programs of the runs meet `CodecAssumption` and
`ScenariosAnalyzable`.  `CancelledWaitReturns`, `OwnAnswer` on the local backend and
`EdgesAreCalls` in general do not hold.

A note for who edits the modules: `tlapm` reads `UNION S \cup T` differently from SANY, so
the unions in `CodeGraph` and the proofs are in parentheses.

## 6. Not modelled, and why

* In the lifecycle modules: log lines (they only occupy the `settle` point); the
  function cache, progress and schedules, which have modules of their own; the
  result subscription (`_stream_results`, `subscribe_results`) and the synchronous
  wrappers.
* `WsBackend`: what the hosted broker, which is outside this repository, does with an
  operation; the operations that only encode and decode.
* Starting and stopping: `connect` and `disconnect`, the local broker's process, the
  container's life and the packages the guest installs.  Most of this waits for other
  processes.  `DockerSandbox.start`, `_connect` and `stop` do set the connection, and
  without taking the lock (`worker/sandbox/docker.py:135`, `255`, `263`); `serve` starts
  the sandbox before the first task and stops it after the last, and this is what
  `SerialLink` models.  A program that uses a `DockerSandbox` of its own, and makes its
  first two calls at once, could start it twice: that is not modelled.
* `SerialLink`: the guest's interpreter, in which an execution that was given up on
  goes on beside the next (`worker/worker.py:261`, listed as a hazard without a
  property): nothing in the code promises anything about it.  The bytes a torn
  frame is made of; a request that would read them waits instead.
* Redis and RabbitMQ: what the servers do with a single command; connecting and
  declaring.  What the backends build from several commands is in `Streaming`,
  `Schedules` and `Pairing`.
* Payloads without an `id`, which a worker refuses without an answer
  (`worker/remote.py:633`): every payload the client writes has one.
* `ed25519` and HMAC: pure functions taken to be what they are for.
* The text that reconstruction writes, and the JSON of a store: the namespace the text
  defines stands for it.  So the module variables and imports of two definitions that
  collide in the flat module (the first stays) are left out; so are local functions of
  one name, module and content, which share a hash although their dependencies may
  differ, and variables annotated with several classes.  Ties that the analyzer settles
  by the order of a registry do not occur in the programs of the runs.
* The registry of clients is read and written in one step each: that two processes write
  the same temporary file (`core/clients.py:69`) and that an unreadable file is taken for
  an empty one (`core/clients.py:56`) is left out.
* The counts of a `Counter` other than numbers; the identity of arguments, which may be
  shared or, if they contain themselves, end the encoder with `RecursionError`.  Parsing: what a body's syntax shows is data of a program.
* `worker_only_import` (`worker/deps.py:214-227` keeps a stack of what is allowed per
  process) and the temporary environments of `_venv.py` (removed by their age).
* The command line apart from `worker`, `pair` and `clients`; the examples.

### Facts worth knowing that no property states

* The bell of the terminal envelope may be lost when it rings while the last value's
  bell is unread: the end then shows after the poll of 25 s.  Streams have no stall
  detection.  Over RabbitMQ each value expires on its own after 300 s.
* A duplicate of a signed envelope is refused, and the refusal is sent as the result of
  the same task.  Without signing a duplicated occurrence forks the schedule.
* A schedule ends without a word when an occurrence is throttled, refused or hit by a
  fault, when `is_streaming` raises for it because the code cannot be rebuilt or a
  package is missing (`worker/remote.py:741`), and when the worker that holds the
  sleeping occurrence dies (`ScheduleGoesOn` lists these ends).  A function that raises
  does not end it.  The next occurrence is signed by the worker:
  revoking the client does not end its schedule.
* A worker that is running writes its own copy of the known clients at the next
  acceptance: a client revoked meanwhile by the command line is approved again.  A client
  whose identity file was replaced is refused for ever.
* A `--clock-skew` of more than 300 s lets an envelope be fresh for longer than its nonce
  is kept; `EnvelopeAssumption` excludes it.
* A second pairing within five minutes may read the response or the confirmation of the
  first (`PairedMeansConfirmed` is about the first).
* `_StreamSubmission._ensure` (`worker/result.py:713`) looks, awaits and then assigns: two
  iterations started at once submit the task twice.
* Functions that call each other cannot be rebuilt (`CycleError`); a closure over a
  function whose source is lost makes `to_store` raise `KeyError`
  (`graph/graph.py:887`).
* `_last_build_info` is one attribute of the worker: of two tasks that build at once
  the log of one may show the other's.

## 7. What comes next

1. The guest: executions that overlap in one interpreter after a timeout, over
   `SerialLink`, once the code says what should hold of them.
2. The result subscription, over `WsBackend` and the local backend.
