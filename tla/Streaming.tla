------------------------------ MODULE Streaming ------------------------------
(* One streaming task, from the generator run by the worker to the `async   *)
(* for' of the client, over the store of the local, the Redis or the        *)
(* RabbitMQ backend; with the progress the generator reports on its way and *)
(* the cancellation of the handle.  A value is its index in the output of   *)
(* the generator.                                                           *)
EXTENDS Naturals, Sequences, SequencesExt

CONSTANTS Backends,      \* the backends a behaviour may run on
          Expiring,      \* those whose keys may reach their time to live
          Consumers,     \* iterations of the one handle
          MaxYields,     \* values the generator yields at most
          MaxReports,    \* progress reports it sends at most
          MaxFaults,     \* send_yield and send_progress calls that fail
          MaxExpiries,   \* times the broker forgets something
          CancelModes,   \* "forget": cancel(timeout=0); "bounded": cancel()
          None

ASSUME StreamAssumption ==
  /\ Backends \subseteq {"local", "redis", "rabbitmq"} /\ Expiring \subseteq Backends
  /\ {MaxYields, MaxReports, MaxFaults, MaxExpiries} \subseteq Nat
  /\ CancelModes \subseteq {"forget", "bounded"}

VARIABLES backend,     \* the transport in use
          cells,       \* the values the broker holds, None for an empty cell
          bell,        \* a message waits on the doorbell of the stream
          slot,        \* result envelopes waiting in the broker
          flag,        \* the task's cancellation flag
          worker,      \* the coroutine of run_stream and _execute_task
          progress,    \* the state kept by _make_progress_callback
          iter,        \* iter[c]: the coroutine of Stream._stream
          envelope,    \* Result._envelope, shared by the coroutines
          cancel,      \* the coroutine of _do_cancel
          expiries

streamVars == <<backend, cells, bell, slot, flag, worker, progress, iter,
                envelope, cancel, expiries>>

Outcomes == {"ok", "error", "cancelled"}

\* An envelope: its status, and stream_yields for a normal end.
Env(status, final) == [status |-> status, final |-> final]

Envelopes == [status : Outcomes, final : Nat \cup {None}]

ASSUME NoneAssumption == None \notin Nat \cup Outcomes \cup Envelopes

StreamInit ==
  /\ backend \in Backends
  /\ cells = <<>> /\ bell = FALSE /\ slot = <<>> /\ flag = FALSE
  /\ worker = [pc |-> "running", seq |-> 0, stored |-> 0, out |-> None,
               beats |-> TRUE, faults |-> 0]
  /\ progress = [latest |-> 0, inflight |-> <<>>, task |-> 0, shown |-> 0,
                 missed |-> FALSE]
  /\ iter = [c \in Consumers |-> [pc |-> "poll", next |-> 0, batch |-> <<>>,
                                  raw |-> None, got |-> <<>>, told |-> None]]
  /\ envelope = None
  /\ cancel = [pc |-> "idle", raw |-> None]
  /\ expiries = 0

----------------------------------------------------------------------------
(* The store of the backends. *)

\* yield_put pads the buffer with "" up to seq and writes there.
LocalPut(seq, value) ==
  [i \in 1..(IF seq < Len(cells) THEN Len(cells) ELSE seq + 1) |->
     IF i = seq + 1 THEN value ELSE IF i <= Len(cells) THEN cells[i] ELSE None]

\* A variant: LPUSH for RPUSH.
RedisPutInFront(seq, value) == <<value>> \o cells

\* RPUSH: the place of a value is the order of its arrival, whatever seq is.
RedisPut(seq, value) == Append(cells, value)

\* The queue named after the task and seq, which keeps one message.
RabbitPut(seq, value) ==
  [i \in 1..(IF seq < Len(cells) THEN Len(cells) ELSE seq + 1) |->
     IF i = seq + 1 THEN value ELSE IF i <= Len(cells) THEN cells[i] ELSE None]

Put(seq, value) ==
  CASE backend = "local" -> LocalPut(seq, value)
    [] backend = "redis" -> RedisPut(seq, value)
    [] backend = "rabbitmq" -> RabbitPut(seq, value)

Pair(i) == <<i - 1, cells[i]>>

\* yield_get: what is in the buffer from position n on, in order, but the
\* padding.
LocalYields(n) ==
  LET held == {i \in DOMAIN cells : i > n /\ cells[i] # None}
      Nth(k) == CHOOSE i \in held : Cardinality({j \in held : j <= i}) = k
  IN  [k \in 1..Cardinality(held) |-> Pair(Nth(k))]

\* LRANGE, numbered from the position that was asked for.
RedisYields(n) ==
  [i \in 1..(IF n < Len(cells) THEN Len(cells) - n ELSE 0) |-> Pair(n + i)]

\* _read_yield_run: the cells from position n to the first empty one.  They
\* are read one by one and filled in order: what is returned is what they
\* hold at the last read.
RabbitYields(n) ==
  LET run == {k \in 0..Len(cells) : \A i \in 1..k : n + i \in DOMAIN cells /\ cells[n + i] # None}
  IN  [i \in 1..(CHOOSE k \in run : \A j \in run : j <= k) |-> Pair(n + i)]

Yields(n) ==
  CASE backend = "local" -> LocalYields(n)
    [] backend = "redis" -> RedisYields(n)
    [] backend = "rabbitmq" -> RabbitYields(n)

\* send_result: the local slot holds one envelope and keeps the first.  The
\* other backends queue it and ring the doorbell of the stream: Redis in the
\* same pipeline, RabbitMQ by a publication of its own, in a step of its own.
PutEnvelope(e) ==
  /\ slot' = IF backend = "local" /\ slot # <<>> THEN slot ELSE Append(slot, e)
  /\ bell' = (bell \/ backend = "redis")

RingsAfter(at, otherwise) == IF backend = "rabbitmq" THEN at ELSE otherwise

\* A time to live is reached: the key of the list in Redis, while no value is
\* pushed; the oldest value, or the envelope, in RabbitMQ.
Forget ==
  /\ backend \in Expiring /\ expiries < MaxExpiries
  /\ expiries' = expiries + 1
  /\ \/ backend = "redis" /\ cells # <<>> /\ cells' = <<>> /\ slot' = slot
     \/ /\ backend = "rabbitmq" /\ slot' = slot
        /\ \E i \in DOMAIN cells :
             /\ cells[i] # None /\ \A j \in 1..(i - 1) : cells[j] = None
             /\ cells' = [cells EXCEPT ![i] = None]
     \/ slot # <<>> /\ slot' = Tail(slot) /\ cells' = cells
  /\ UNCHANGED <<backend, bell, flag, worker, progress, iter, envelope, cancel>>

----------------------------------------------------------------------------
(* The worker. *)

\* The generator yields and run_stream awaits on_yield.
Yield ==
  /\ worker.pc = "running" /\ worker.seq < MaxYields
  /\ worker' = [worker EXCEPT !.pc = "sending"]
  /\ UNCHANGED <<backend, cells, bell, slot, flag, progress, iter, envelope, cancel, expiries>>

\* send_yield reaches the broker ...
StoreYield ==
  /\ worker.pc = "sending"
  /\ cells' = Put(worker.seq, worker.seq)
  /\ worker' = [worker EXCEPT !.pc = "ringing", !.stored = @ + 1]
  /\ UNCHANGED <<backend, bell, slot, flag, progress, iter, envelope, cancel, expiries>>

\* A variant: the doorbell is not rung.
RingYieldForgotten ==
  /\ worker.pc = "ringing"
  /\ worker' = [worker EXCEPT !.pc = "running", !.seq = @ + 1]
  /\ UNCHANGED <<backend, cells, bell, slot, flag, progress, iter, envelope, cancel, expiries>>

\* ... then rings, and the next value is asked from the generator.
RingYield ==
  /\ worker.pc = "ringing"
  /\ bell' = (bell \/ backend # "local")
  /\ worker' = [worker EXCEPT !.pc = "running", !.seq = @ + 1]
  /\ UNCHANGED <<backend, cells, slot, flag, progress, iter, envelope, cancel, expiries>>

End(status, final) ==
  worker' = [worker EXCEPT !.pc = "flushing", !.out = Env(status, final)]

\* The generator returns or raises, or send_yield raises with its value
\* stored or not: run_stream closes the generator and _execute_task makes the
\* envelope, with the number of values of a normal end only.
Finish ==
  /\ \/ worker.pc = "running" /\ (End("ok", worker.seq) \/ End("error", None))
     \/ /\ worker.pc \in {"sending", "ringing"} /\ worker.faults < MaxFaults
        /\ worker' = [worker EXCEPT !.pc = "flushing", !.out = Env("error", None),
                                    !.faults = @ + 1]
  /\ UNCHANGED <<backend, cells, bell, slot, flag, progress, iter, envelope, cancel, expiries>>

\* The heartbeat loop sees the flag, cancels the execution and ends.  At an
\* await of its own the generator may ignore it and go on.
Interrupt ==
  /\ flag /\ worker.beats /\ worker.pc \in {"running", "sending", "ringing"}
  /\ \/ worker' = [worker EXCEPT !.pc = "flushing", !.beats = FALSE,
                                 !.out = Env("cancelled", None)]
     \/ worker.pc = "running" /\ worker' = [worker EXCEPT !.beats = FALSE]
  /\ UNCHANGED <<backend, cells, bell, slot, flag, progress, iter, envelope, cancel, expiries>>

\* offwork.progress(): the newest state is kept; it is sent by a task of its
\* own unless one was sent less than 50 ms ago.  `task' is the newest of these
\* tasks, named by the state it sends, 0 when there is none that is not over.
Report ==
  /\ worker.pc = "running" /\ progress.latest < MaxReports
  /\ LET now == progress.latest + 1 IN
     progress' \in {[progress EXCEPT !.latest = now],
                    [progress EXCEPT !.latest = now, !.task = now,
                                     !.inflight = Append(@, now)]}
  /\ UNCHANGED <<backend, cells, bell, slot, flag, worker, iter, envelope, cancel, expiries>>

\* One of the calls to the broker raises before the broker has it.
Fail(w) == w.faults < MaxFaults /\ worker' = [w EXCEPT !.faults = @ + 1]

\* A send ends: in order over the one channel of the local and RabbitMQ
\* backends, in any order over the connection pool of Redis.  It arrives, or
\* it raises, which _send swallows.
ShowProgress ==
  /\ \E i \in DOMAIN progress.inflight :
       LET n == progress.inflight[i]
           rest == [progress EXCEPT !.inflight = RemoveAt(@, i),
                                    !.task = IF n = @ THEN 0 ELSE @]
       IN
       /\ i = 1 \/ backend = "redis"
       /\ \/ progress' = [rest EXCEPT !.shown = n] /\ worker' = worker
          \/ progress' = rest /\ Fail(worker)
  /\ UNCHANGED <<backend, cells, bell, slot, flag, iter, envelope, cancel, expiries>>

\* The last send of flush(), with the newest state if there is one: the same
\* _send, which may raise.
SendFinal ==
  LET next == [worker EXCEPT !.pc = "answering"] IN
  \/ progress' = [progress EXCEPT !.shown = progress.latest] /\ worker' = next
  \/ /\ progress.latest > 0 /\ progress' = [progress EXCEPT !.missed = TRUE]
     /\ Fail(next)

\* A variant: flush() does not wait for the send it knows of.
FlushAtOnce ==
  /\ worker.pc = "flushing" /\ SendFinal
  /\ UNCHANGED <<backend, cells, bell, slot, flag, iter, envelope, cancel, expiries>>

\* flush() waits for the last task it knows of, then sends the newest state.
Flush ==
  /\ worker.pc = "flushing" /\ progress.task = 0
  /\ SendFinal
  /\ UNCHANGED <<backend, cells, bell, slot, flag, iter, envelope, cancel, expiries>>

Answer ==
  /\ worker.pc = "answering" /\ PutEnvelope(worker.out)
  /\ worker' = [worker EXCEPT !.pc = RingsAfter("answered", "done")]
  /\ UNCHANGED <<backend, cells, flag, progress, iter, envelope, cancel, expiries>>

RingAnswer ==
  /\ worker.pc = "answered" /\ bell' = TRUE
  /\ worker' = [worker EXCEPT !.pc = "done"]
  /\ UNCHANGED <<backend, cells, slot, flag, progress, iter, envelope, cancel, expiries>>

----------------------------------------------------------------------------
(* The iteration of the client. *)

\* A batch is delivered value by value, an empty one leads to `otherwise'.
Got(c, batch, otherwise) ==
  iter' = [iter EXCEPT ![c].pc = IF batch = <<>> THEN otherwise ELSE "deliver",
                       ![c].batch = batch]

\* get_yields with a timeout: the first look.
Poll(c) ==
  /\ iter[c].pc = "poll" /\ Got(c, Yields(iter[c].next), "wait")
  /\ UNCHANGED <<backend, cells, bell, slot, flag, worker, progress, envelope, cancel, expiries>>

\* It waits for the doorbell, or for its timeout, and looks again; the local
\* backend sleeps and returns what it had.
Wake(c) ==
  /\ iter[c].pc = "wait"
  /\ bell' \in {FALSE, bell}
  /\ Got(c, IF backend = "local" THEN <<>> ELSE Yields(iter[c].next), "check")
  /\ UNCHANGED <<backend, cells, slot, flag, worker, progress, envelope, cancel, expiries>>

\* The loop over the batch: a value of the past is skipped, one of the future
\* is a gap; the body of the `async for' runs between two of them.
Deliver(c) ==
  /\ iter[c].pc = "deliver"
  /\ LET n == iter[c].next  head == Head(iter[c].batch)  rest == Tail(iter[c].batch)
         at == IF rest = <<>> THEN "poll" ELSE "deliver"
     IN  IF head[1] < n
           THEN iter' = [iter EXCEPT ![c].pc = at, ![c].batch = rest]
         ELSE IF head[1] > n
           THEN iter' = [iter EXCEPT ![c].pc = "ended", ![c].told = "gap"]
         ELSE iter' = [iter EXCEPT ![c].pc = at, ![c].batch = rest,
                                   ![c].next = n + 1, ![c].got = Append(@, head[2])]
  /\ UNCHANGED <<backend, cells, bell, slot, flag, worker, progress, envelope, cancel, expiries>>

\* A variant: only the broker is asked, not the handle.
CheckBrokerOnly(c) ==
  /\ iter[c].pc = "check"
  /\ IF slot # <<>>
       THEN /\ slot' = Tail(slot)
            /\ iter' = [iter EXCEPT ![c].pc = "took", ![c].raw = Head(slot)]
       ELSE iter' = [iter EXCEPT ![c].pc = "poll"] /\ slot' = slot
  /\ UNCHANGED <<backend, cells, bell, flag, worker, progress, envelope, cancel, expiries>>

\* No value: take the terminal envelope, if there is none yet ...
Check(c) ==
  /\ iter[c].pc = "check"
  /\ IF envelope = None /\ slot # <<>>
       THEN /\ slot' = Tail(slot)
            /\ iter' = [iter EXCEPT ![c].pc = "took", ![c].raw = Head(slot)]
       ELSE /\ iter' = [iter EXCEPT ![c].pc = IF envelope = None THEN "poll" ELSE "tail"]
            /\ slot' = slot
  /\ UNCHANGED <<backend, cells, bell, flag, worker, progress, envelope, cancel, expiries>>

\* ... and keep it, whatever the handle has got in the meantime.
Keep(c) ==
  /\ iter[c].pc = "took" /\ envelope' = iter[c].raw
  /\ iter' = [iter EXCEPT ![c].pc = "tail"]
  /\ UNCHANGED <<backend, cells, bell, slot, flag, worker, progress, cancel, expiries>>

\* A variant: the envelope is believed without another look.
DrainNothing(c) ==
  /\ iter[c].pc = "tail"
  /\ iter' = [iter EXCEPT ![c].pc = "ended", ![c].told = envelope.status]
  /\ UNCHANGED <<backend, cells, bell, slot, flag, worker, progress, envelope, cancel, expiries>>

\* With an envelope: another look without waiting, since the envelope may
\* have overtaken the last values; the end, or more polling.
DrainTail(c) ==
  /\ iter[c].pc = "tail"
  /\ LET n == iter[c].next IN
     IF Yields(n) = <<>> /\ (envelope.final = None \/ n >= envelope.final)
       THEN iter' = [iter EXCEPT ![c].pc = "ended", ![c].told = envelope.status]
       ELSE iter' = [iter EXCEPT ![c].pc = "poll"]
  /\ UNCHANGED <<backend, cells, bell, slot, flag, worker, progress, envelope, cancel, expiries>>

----------------------------------------------------------------------------
(* The cancellation of the handle. *)

CancelSignal ==
  /\ cancel.pc = "idle" /\ flag' = TRUE
  /\ \E m \in CancelModes :
       cancel' = [cancel EXCEPT !.pc = IF m = "forget" THEN "seed" ELSE "confirm"]
  /\ UNCHANGED <<backend, cells, bell, slot, worker, progress, iter, envelope, expiries>>

\* get_result takes the confirmation of the worker, or the timeout passes.
\* Over RabbitMQ both may happen: the consumer acknowledges an envelope that
\* nobody awaits any more.
CancelConfirm ==
  /\ cancel.pc = "confirm"
  /\ \/ /\ slot # <<>> /\ slot' = Tail(slot)
        /\ cancel' = [pc |-> "keep", raw |-> Head(slot)]
     \/ /\ slot' = slot \/ (backend = "rabbitmq" /\ slot # <<>> /\ slot' = Tail(slot))
        /\ cancel' = [cancel EXCEPT !.pc = "seed"]
  /\ UNCHANGED <<backend, cells, bell, flag, worker, progress, iter, envelope, expiries>>

\* The timeout, or cancel(timeout=0): a cancelled envelope is sent ...
CancelSeed ==
  /\ cancel.pc = "seed" /\ PutEnvelope(Env("cancelled", None))
  /\ cancel' = [pc |-> RingsAfter("ring", "keep"), raw |-> Env("cancelled", None)]
  /\ UNCHANGED <<backend, cells, flag, worker, progress, iter, envelope, expiries>>

CancelRing ==
  /\ cancel.pc = "ring" /\ bell' = TRUE
  /\ cancel' = [cancel EXCEPT !.pc = "keep"]
  /\ UNCHANGED <<backend, cells, slot, flag, worker, progress, iter, envelope, expiries>>

\* ... and what was taken or sent replaces what the handle holds.
CancelKeep ==
  /\ cancel.pc = "keep" /\ envelope' = cancel.raw
  /\ cancel' = [cancel EXCEPT !.pc = "done"]
  /\ UNCHANGED <<backend, cells, bell, slot, flag, worker, progress, iter, expiries>>

----------------------------------------------------------------------------
Work == \/ Yield \/ StoreYield \/ RingYield \/ Finish \/ Interrupt
        \/ Report \/ ShowProgress \/ Flush \/ Answer \/ RingAnswer
Iterate(c) == Poll(c) \/ Wake(c) \/ Deliver(c) \/ Check(c) \/ Keep(c) \/ DrainTail(c)
CancelEnd == CancelConfirm \/ CancelSeed \/ CancelRing \/ CancelKeep
CancelStep == CancelSignal \/ CancelEnd

StreamNext == Work \/ CancelStep \/ Forget \/ \E c \in Consumers : Iterate(c)

StreamSpec == StreamInit /\ [][StreamNext]_streamVars

\* asyncio resumes every coroutine whose await is over: sends arrive, the
\* poll of an iteration ends by its timeout, and a client goes on iterating.
\* Whether the generator yields, returns or is cancelled is its own affair.
StreamFairSpec ==
  /\ StreamSpec
  /\ WF_streamVars(StoreYield) /\ WF_streamVars(RingYield)
  /\ WF_streamVars(ShowProgress) /\ WF_streamVars(Flush)
  /\ WF_streamVars(Answer) /\ WF_streamVars(RingAnswer) /\ WF_streamVars(CancelEnd)
  /\ \A c \in Consumers : WF_streamVars(Iterate(c))

----------------------------------------------------------------------------
(* Properties. *)

\* An iteration hands out the values of the generator from the first one on,
\* each once and in its place, whenever it starts, whatever the backend stores them in and
\* whatever has expired: position and value agree over all the steps between
\* the `yield' in the worker and the one in the client.  On Redis only as long
\* as the list has not expired: the one that the next value starts has its
\* index 0 at another value (redis.py:137: `index in the list equals seq').
\* This is what the code does: _stream starts every iteration at 0, over a
\* store that a read does not empty.  The docstring of Stream (result.py:617)
\* says that a late one sees values `from that point on': README, section 4.
InOrder ==
  (backend = "redis" => expiries = 0) =>
    \A c \in Consumers : iter[c].got = [i \in 1..iter[c].next |-> i - 1]

\* The doorbell loses no wake-up for a value: an iteration that waits while
\* the broker holds a value it lacks has a message on its bell, or one that
\* the writer is about to ring or failed to ring (one iteration: a second
\* would share the bell).  It may lose the one of the envelope, when both
\* rang before the iteration listened: the end then shows after the timeout.
NoLostWakeup ==
  \A c \in Consumers :
    (/\ Consumers = {c} /\ backend # "local"
     /\ iter[c].pc = "wait" /\ Yields(iter[c].next) # <<>>)
    => bell \/ worker.pc = "ringing" \/ worker.stored > worker.seq

\* What a client reads as the progress does not go back, and from the moment
\* flush() is over it does not change: a send under way is of a newer state
\* than the one shown, none is under way any more when the worker answers, and
\* what is shown then is the last state reported, unless the send of flush()
\* itself raised.  Over a backend whose calls share one channel.
FinalProgress ==
  backend # "redis" =>
    /\ \A i \in DOMAIN progress.inflight : progress.inflight[i] > progress.shown
    /\ worker.pc \in {"answering", "answered", "done"} =>
         /\ progress.inflight = <<>>
         /\ progress.shown = progress.latest \/ progress.missed

\* The stream keeps the promise of StreamPromise.
Promise == INSTANCE StreamPromise WITH
  emitted <- worker.stored,
  closed <- IF worker.out = None THEN None ELSE worker.out.status,
  asked <- flag,
  expired <- expiries > 0,
  received <- [c \in Consumers |-> iter[c].next],
  told <- [c \in Consumers |-> iter[c].told]

\* Every step of worker, broker and client is a step of the promised stream
\* or leaves it alone: an `async for' ends by the way the generator ended,
\* after all its values, unless the client cancelled.
StreamKept == Promise!PromiseSpec

\* When the worker has answered, every iteration ends, also if cancel() took
\* the envelope or put another in its place, unless the answer expired.
EveryIterationEnds ==
  \A c \in Consumers :
    worker.pc = "done" ~> (iter[c].pc = "ended" \/ expiries > 0)
=============================================================================
