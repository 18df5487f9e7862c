----------------------------- MODULE WorkerLoop -----------------------------
(***************************************************************************)
(* The worker process of offwork/worker/remote.py: the loop that listens   *)
(* for tasks, one asyncio handler per task (_handle_task, _execute_task)   *)
(* gated by a semaphore, the heartbeat loop beside each execution, the     *)
(* retries of Worker.run_with_policy, graceful and forced shutdown, and    *)
(* the death of the process.                                               *)
(*                                                                         *)
(* A step ends where the code awaits.  A task is delivered to at most one  *)
(* worker (see AtMostOneCopy in TaskLifecycle), so the handler of t is     *)
(* indexed by t.  Left out: logging, the progress callback, the execution  *)
(* of streams, the re-enqueueing of recurring tasks, signatures beyond     *)
(* "accepted or rejected".                                                 *)
(***************************************************************************)
EXTENDS Broker

CONSTANTS
  Concurrency,   \* the capacity of the semaphore, serve(concurrency=...)
  Retries,       \* task.retries
  Refusable,     \* tasks whose payload or signature may be refused
  Delayed,       \* tasks with a scheduled_at in the future
  Throttled,     \* tasks of the function that declares a throttle
  SyncTasks,     \* tasks whose function is synchronous and has a timeout
  MaxSignals,    \* bound: SIGINT or SIGTERM received by a worker
  MaxCrashes,    \* bound: workers that die
  FaultyCalls,   \* backend calls of a worker that may raise: see Calls
  MaxFaults      \* bound: how many of them do

\* is_cancelled and check_throttle, send_result, record_throttle, listen.
Calls == {"check", "send", "record", "listen"}

ASSUME WorkerAssumption ==
  /\ Concurrency \in Nat \ {0}
  /\ {Retries, MaxSignals, MaxCrashes, MaxFaults} \subseteq Nat
  /\ Refusable \subseteq Tasks /\ Delayed \subseteq Tasks
  /\ Throttled \subseteq Tasks /\ SyncTasks \subseteq Tasks
  /\ FaultyCalls \subseteq Calls

VARIABLES
  worker,      \* "serving", "stopped" or "crashed"
  signals,     \* signals received (shutdown is set from the first on)
  listening,   \* _listen() is running
  free,        \* the value of the semaphore
  owner,       \* the worker a task was accepted by, None before
  pc,          \* where the handler of a task is
  attempt,     \* run_with_policy: the attempt under way
  envelope,    \* the status of the envelope about to be sent
  hb,          \* tasks whose heartbeat loop is running
  aborting,    \* executions with a CancelledError on its way
  doomed,      \* handlers with a CancelledError on its way
  threads,     \* executor threads still in a call the worker gave up on
  verdict,     \* history: the status the worker put in the result slot
  faults       \* history: backend calls that have raised

handlerVars == <<owner, pc, attempt, envelope, hb, aborting, doomed, threads,
                 verdict>>
workerVars == <<worker, signals, listening, free, handlerVars, faults>>

\* The points of a handler that holds a semaphore slot.
SlotPcs == {"check", "throttle", "build", "run", "backoff", "settle", "send",
            "record"}
\* The points of a handler in the set `pending` of the loop.
PendingPcs == SlotPcs \cup {"reject", "sleep", "wait"}
Pcs == PendingPcs \cup {"idle", "done", "lost"}

WorkerTypeOK ==
  /\ worker \in [Workers -> {"serving", "stopped", "crashed"}]
  /\ signals \in [Workers -> 0..MaxSignals]
  /\ listening \in [Workers -> BOOLEAN]
  /\ free \in [Workers -> Nat]
  /\ owner \in [Tasks -> Workers \cup {None}]
  /\ pc \in [Tasks -> Pcs]
  /\ attempt \in [Tasks -> 0..(1 + Retries)]
  /\ envelope \in [Tasks -> Status \cup {None}]
  /\ hb \subseteq Tasks /\ aborting \subseteq Tasks /\ doomed \subseteq Tasks
  /\ threads \in [Tasks -> Nat]
  /\ verdict \in [Tasks -> Status \cup {None}]
  /\ faults \in 0..MaxFaults

WorkerInit ==
  /\ worker = [w \in Workers |-> "serving"]
  /\ signals = [w \in Workers |-> 0]
  /\ listening = [w \in Workers |-> TRUE]
  /\ free = [w \in Workers |-> Concurrency]
  /\ owner = [t \in Tasks |-> None]
  /\ pc = [t \in Tasks |-> "idle"]
  /\ attempt = [t \in Tasks |-> 0]
  /\ envelope = [t \in Tasks |-> None]
  /\ hb = {} /\ aborting = {} /\ doomed = {}
  /\ threads = [t \in Tasks |-> 0]
  /\ verdict = [t \in Tasks |-> None]
  /\ faults = 0

Owned(w) == {t \in Tasks : owner[t] = w}
Pending(w) == {t \in Tasks : owner[t] = w /\ pc[t] \in PendingPcs}
Holders(w) == {t \in Tasks : owner[t] = w /\ pc[t] \in SlotPcs}

\* The handler of t is at l and goes on undisturbed.
At(t, l) == pc[t] = l /\ t \notin doomed

Goto(t, l) == pc' = [pc EXCEPT ![t] = l]

\* `async with sem` is left, whichever way the handler ends.
Release(t) == free' = [free EXCEPT ![owner[t]] = @ + 1]

\* A backend call raises ConnectionError.
Fault(call) ==
  /\ call \in FaultyCalls /\ faults < MaxFaults
  /\ faults' = faults + 1

-----------------------------------------------------------------------------
(* _listen and _worker_loop.                                               *)

\* A task comes off the listening connection and gets a handler, which
\* parses and verifies it before its first await.
Accept(w) ==
  /\ worker[w] = "serving" /\ listening[w] /\ signals[w] = 0
  /\ wire[w] # <<>>
  /\ LET t == Head(wire[w]) IN
       /\ wire' = [wire EXCEPT ![w] = Tail(@)]
       /\ owner' = [owner EXCEPT ![t] = w]
       /\ \/ /\ t \in Refusable
             /\ Goto(t, "reject")
             /\ envelope' = [envelope EXCEPT ![t] = "error"]
          \/ /\ Goto(t, IF t \in Delayed THEN "sleep" ELSE "wait")
             /\ UNCHANGED envelope
  /\ UNCHANGED <<queue, results, fresh, cancelled, cooling, stream, worker,
                 signals, listening, free, attempt, hb, aborting, doomed,
                 threads, verdict, faults>>

\* What is on its way to a listener that stops is not handed to anyone.
DropWire(w) ==
  /\ CloseStream(w)
  /\ pc' = [t \in Tasks |->
              IF InFlight(w, t) THEN "lost" ELSE pc[t]]

\* _on_shutdown_signal: the first signal sets `shutdown`; a later one cancels
\* every pending handler.  Cancelling a handler that awaits its execution
\* cancels the execution, and the handler itself goes on when that ends.
Signal(w) ==
  /\ worker[w] = "serving" /\ signals[w] < MaxSignals
  /\ signals' = [signals EXCEPT ![w] = @ + 1]
  /\ IF signals[w] = 0
     THEN UNCHANGED <<aborting, doomed>>
     ELSE LET running == {t \in Pending(w) : pc[t] \in {"run", "backoff"}} IN
          /\ aborting' = aborting \cup running
          /\ doomed' = doomed \cup (Pending(w) \ running)
  /\ UNCHANGED <<brokerVars, worker, listening, free, owner, pc, attempt,
                 envelope, hb, threads, verdict, faults>>

\* shutdown.wait() returns and the listen task is cancelled.
StopListening(w) ==
  /\ worker[w] = "serving" /\ signals[w] > 0 /\ listening[w]
  /\ listening' = [listening EXCEPT ![w] = FALSE]
  /\ DropWire(w)
  /\ UNCHANGED <<queue, results, fresh, cancelled, cooling, worker, signals,
                 free, owner, attempt, envelope, hb, aborting, doomed, threads,
                 verdict, faults>>

\* The listening connection breaks: listen() returns, and nothing starts it
\* again although the loop goes on waiting for a signal.
ListenEnds(w) ==
  /\ worker[w] = "serving" /\ listening[w]
  /\ Fault("listen")
  /\ listening' = [listening EXCEPT ![w] = FALSE]
  /\ DropWire(w)
  /\ UNCHANGED <<queue, results, fresh, cancelled, cooling, worker, signals,
                 free, owner, attempt, envelope, hb, aborting, doomed, threads,
                 verdict>>

\* A wrong shutdown for the mutation tests: no gather(*pending).
StopWithoutDraining(w) ==
  /\ worker[w] = "serving" /\ signals[w] > 0 /\ ~listening[w]
  /\ worker' = [worker EXCEPT ![w] = "stopped"]
  /\ hb' = hb \ Owned(w)
  /\ pc' = [t \in Tasks |-> IF t \in Pending(w) THEN "lost" ELSE pc[t]]
  /\ UNCHANGED <<brokerVars, signals, listening, free, owner, attempt,
                 envelope, aborting, doomed, threads, verdict, faults>>

\* gather(*pending) returns; the process ends once serve() returns.
Stop(w) ==
  /\ worker[w] = "serving" /\ signals[w] > 0 /\ ~listening[w]
  /\ Pending(w) = {}
  /\ worker' = [worker EXCEPT ![w] = "stopped"]
  /\ hb' = hb \ Owned(w)
  /\ UNCHANGED <<brokerVars, signals, listening, free, owner, pc, attempt,
                 envelope, aborting, doomed, threads, verdict, faults>>

\* The process dies between two steps: its handlers and what it had prefetched
\* are gone, its slots mean nothing any more.
Crash(w) ==
  /\ worker[w] = "serving"
  /\ Cardinality({x \in Workers : worker[x] = "crashed"}) < MaxCrashes
  /\ worker' = [worker EXCEPT ![w] = "crashed"]
  /\ listening' = [listening EXCEPT ![w] = FALSE]
  /\ CloseStream(w)
  /\ LET gone == Pending(w) IN
       /\ pc' = [t \in Tasks |->
                   IF t \in gone \/ InFlight(w, t) THEN "lost" ELSE pc[t]]
       /\ hb' = hb \ Owned(w)
       /\ aborting' = aborting \ gone
       /\ doomed' = doomed \ gone
       /\ threads' = [t \in Tasks |-> IF owner[t] = w THEN 0 ELSE threads[t]]
  /\ free' = [free EXCEPT ![w] = Concurrency]
  /\ UNCHANGED <<queue, results, fresh, cancelled, cooling, signals, owner,
                 attempt, envelope, verdict, faults>>

-----------------------------------------------------------------------------
(* _handle_task and the checks of _execute_task.                           *)

handlerRest == <<brokerVars, worker, signals, listening, owner, hb, aborting,
                 doomed, threads>>

\* The scheduled time has come; no slot is held while waiting for it.
WakeUp(t) ==
  /\ At(t, "sleep")
  /\ Goto(t, "wait")
  /\ UNCHANGED <<handlerRest, free, attempt, envelope, verdict, faults>>

Acquire(t) ==
  /\ At(t, "wait")
  /\ free[owner[t]] > 0
  /\ free' = [free EXCEPT ![owner[t]] = @ - 1]
  /\ Goto(t, "check")
  /\ UNCHANGED <<handlerRest, attempt, envelope, verdict, faults>>

\* A wrong skip for the mutation tests: the slot is not given back.
SkipLeaksSlot(t) ==
  /\ At(t, "check")
  /\ \/ t \in cancelled /\ Goto(t, "done")
     \/ /\ t \notin cancelled
        /\ Goto(t, IF t \in Throttled THEN "throttle" ELSE "build")
  /\ UNCHANGED <<handlerRest, free, attempt, envelope, verdict, faults>>

\* is_cancelled: a cancelled task is skipped, and no result is sent for it.
CheckCancelled(t) ==
  /\ At(t, "check")
  /\ \/ /\ t \in cancelled
        /\ Goto(t, "done") /\ Release(t)
     \/ /\ t \notin cancelled
        /\ Goto(t, IF t \in Throttled THEN "throttle" ELSE "build")
        /\ UNCHANGED free
  /\ UNCHANGED <<handlerRest, attempt, envelope, verdict, faults>>

\* check_throttle: during the cooldown the task is answered "throttled".
CheckThrottle(t) ==
  /\ At(t, "throttle")
  /\ \/ /\ cooling
        /\ envelope' = [envelope EXCEPT ![t] = "throttled"]
        /\ Goto(t, "send")
     \/ /\ ~cooling
        /\ Goto(t, "build")
        /\ UNCHANGED envelope
  /\ UNCHANGED <<handlerRest, free, attempt, verdict, faults>>

\* A wrong check for the mutation tests: an exception of a backend check
\* ends the handler without an answer.
CheckDies(t) ==
  /\ At(t, "check") \/ At(t, "throttle")
  /\ Fault("check")
  /\ Goto(t, "lost") /\ Release(t)
  /\ UNCHANGED <<handlerRest, attempt, envelope, verdict>>

\* is_cancelled or check_throttle raises: the client gets an error.
CheckFails(t) ==
  /\ At(t, "check") \/ At(t, "throttle")
  /\ Fault("check")
  /\ envelope' = [envelope EXCEPT ![t] = "error"]
  /\ Goto(t, "send")
  /\ UNCHANGED <<handlerRest, free, attempt, verdict>>

\* is_streaming reconstructs the function (and installs what it needs): it
\* fails, or the execution and its heartbeat loop start.
BuildFails(t) ==
  /\ At(t, "build")
  /\ envelope' = [envelope EXCEPT ![t] = "error"]
  /\ Goto(t, "send")
  /\ UNCHANGED <<handlerRest, free, attempt, verdict, faults>>

StartRun(t) ==
  /\ At(t, "build")
  /\ attempt' = [attempt EXCEPT ![t] = 1]
  /\ hb' = hb \cup {t}
  /\ Goto(t, "run")
  /\ UNCHANGED <<brokerVars, worker, signals, listening, free, owner, envelope,
                 aborting, doomed, threads, verdict, faults>>

=============================================================================
